---- MODULE Spec2Model ----
(***************************************************************************)
(* Model of the pseudo-diff patch engine (src/src/tools/patch_tool.py) and *)
(* of its caller ExecutorAgent.execute_apply_patch                         *)
(* (src/src/agents/executor_agent.py).                                     *)
(*                                                                         *)
(* Strings are sequences of one-character strings, so that prefix tests,   *)
(* stripping and splitting are computed, not assumed.  An Optional[str] is *)
(* a record [some, val]; None is [some |-> FALSE, val |-> <<>>].           *)
(***************************************************************************)
EXTENDS Integers, Sequences, FiniteSets, TLC

\* ------------------------------------------------------------------ bounds
\* Largest number of changes in a commit handed directly to apply_commit.
MaxChanges == 3

\* --------------------------------------------------------- optional values
None == [some |-> FALSE, val |-> <<>>]
Some(v) == [some |-> TRUE, val |-> v]
\* Python truthiness of an Optional[str]: None and "" are falsy.
Truthy(o) == o.some /\ o.val # <<>>

\* ----------------------------------------------------------------- strings
\* A Python str is the sequence of its characters.
\* Characters str.strip() / str.rstrip() remove.
Whitespace == {" ", "\t", "\n", "\r"}

\* s.startswith(prefix)
StartsWith(s, prefix) ==
    Len(s) >= Len(prefix) /\ SubSeq(s, 1, Len(prefix)) = prefix

\* s.startswith((p1, p2, ...))
StartsWithAny(s, prefixes) == \E p \in prefixes : StartsWith(s, p)

\* s[n:]
DropFirst(s, n) == SubSeq(s, n + 1, Len(s))

RECURSIVE RStripSet(_, _)
RStripSet(s, set) ==
    IF s # <<>> /\ s[Len(s)] \in set
    THEN RStripSet(SubSeq(s, 1, Len(s) - 1), set) ELSE s

RECURSIVE LStripSet(_, _)
LStripSet(s, set) ==
    IF s # <<>> /\ s[1] \in set THEN LStripSet(Tail(s), set) ELSE s

\* s.rstrip()
RStrip(s) == RStripSet(s, Whitespace)
\* Mutant of Strip: every character is taken for white space.
StripAll(s) == <<>>

\* s.strip()
Strip(s) == LStripSet(RStripSet(s, Whitespace), Whitespace)

\* Parser._norm: line.rstrip("\r")
Norm(line) == RStripSet(line, {"\r"})

\* [f(s) for s in lines] for f one of the strips.
MapRStrip(lines) == [i \in 1..Len(lines) |-> RStrip(lines[i])]
\* Mutant of MapStrip: the lines are left untrimmed.
MapStripNot(lines) == lines

MapStrip(lines) == [i \in 1..Len(lines) |-> Strip(lines[i])]

\* The piece of text made of the characters at the positions in idxs (a
\* contiguous run, possibly empty).
Piece(text, idxs) ==
    IF idxs = {} THEN <<>>
    ELSE SubSeq(text, CHOOSE i \in idxs : \A j \in idxs : i <= j,
                      CHOOSE i \in idxs : \A j \in idxs : j <= i)

\* The pieces of text between the positions in ends (each the last
\* character of a separator); characters in seps belong to no piece.
Pieces(text, ends, seps, count) ==
    [k \in 1..count |->
        Piece(text, {i \in 1..Len(text) :
                        /\ text[i] \notin seps
                        /\ Cardinality({j \in ends : j < i}) = k - 1})]

\* text.split("\n"): always at least one piece, a trailing "\n" gives a
\* last empty piece.
SplitNL(text) ==
    LET ends == {i \in 1..Len(text) : text[i] = "\n"}
    IN Pieces(text, ends, {"\n"}, Cardinality(ends) + 1)

\* text.splitlines(): breaks at "\n", "\r\n" and "\r"; no piece for the
\* empty string or after a final line break.
SplitLines(text) ==
    LET ends == {i \in 1..Len(text) :
                    \/ text[i] = "\n"
                    \/ text[i] = "\r" /\ ~(i < Len(text) /\ text[i + 1] = "\n")}
        open == text # <<>> /\ text[Len(text)] \notin {"\n", "\r"}
    IN Pieces(text, ends, {"\n", "\r"},
              Cardinality(ends) + (IF open THEN 1 ELSE 0))

\* "\n".join(lines)
RECURSIVE JoinNL(_)
JoinNL(lines) ==
    IF lines = <<>> THEN <<>>
    ELSE IF Len(lines) = 1 THEN lines[1]
    ELSE lines[1] \o <<"\n">> \o JoinNL(Tail(lines))

\* x in list
InSeq(x, seq) == \E i \in 1..Len(seq) : seq[i] = x

\* The marker literals of the patch format.
BEGIN_PATCH == <<"*","*","*"," ","B","e","g","i","n"," ","P","a","t","c","h">>
END_PATCH == <<"*","*","*"," ","E","n","d"," ","P","a","t","c","h">>
UPDATE_FILE == <<"*","*","*"," ","U","p","d","a","t","e"," ","F","i","l","e",":">>
DELETE_FILE == <<"*","*","*"," ","D","e","l","e","t","e"," ","F","i","l","e",":">>
ADD_FILE == <<"*","*","*"," ","A","d","d"," ","F","i","l","e",":">>
MOVE_TO == <<"*","*","*"," ","M","o","v","e"," ","t","o",":">>
END_OF_FILE == <<"*","*","*"," ","E","n","d"," ","o","f"," ","F","i","l","e">>
STARS == <<"*","*","*">>
ATAT == <<"@","@">>
SP == <<" ">>

\* ------------------------------------------------------------ domain types
\* class ActionType
ADD == "add"
DELETE == "delete"
UPDATE == "update"

\* File paths used by the commits handed directly to apply_commit.
CommitPaths == {<<"a">>, <<"b">>, <<"c">>}

\* New content carried by a change for path p (distinct per path).
ContentFor(p) == p \o <<"!">>
\* Content a file has before the commit is applied.
OldContentFor(p) == p \o <<"0">>

\* class FileChange, keyed by its path in Commit.changes.
FileChangesFor(p) ==
    {[path |-> p, type |-> DELETE, new_content |-> None, move_path |-> None]}
    \cup {[path |-> p, type |-> ADD, new_content |-> c, move_path |-> None] :
            c \in {None, Some(ContentFor(p))}}
    \cup {[path |-> p, type |-> UPDATE, new_content |-> c, move_path |-> m] :
            c \in {None, Some(ContentFor(p))},
            m \in {None} \cup {Some(q) : q \in CommitPaths}}

AllFileChanges == UNION {FileChangesFor(p) : p \in CommitPaths}

\* class Commit: an insertion-ordered dict path -> FileChange, as the
\* sequence of its items; keys are unique.
UniquePaths(cs) == \A i, j \in 1..Len(cs) : cs[i].path = cs[j].path => i = j

Commits ==
    UNION {{cs \in [1..n -> AllFileChanges] : UniquePaths(cs)} : n \in 0..MaxChanges}

PathsOf(cs) == {cs[i].path : i \in 1..Len(cs)}

\* del commit.changes[path]
DelChange(cs, p) == SelectSeq(cs, LAMBDA c : c.path # p)

\* ---------------------------------------------------------- status strings
\* A status string is the (f-)string literal of the code that produced it
\* together with the path it interpolates (empty when it interpolates none).
Status(lit, arg) == [lit |-> lit, arg |-> arg]

ErrorLits == {
    "Error: Unexpected exception during delete - {e}",
    "Error: UPDATE change has no new content",
    "Error: Cannot move/update to '{target}', it was modified in the same patch.",
    "Error: Cannot update '{path}', it was deleted in the same patch.",
    "Error: Updated at {target}, but failed to remove original {path}",
    "Error: Failed to write update to {target}",
    "Error: Unexpected exception during update/move - {e}",
    "Error: ADD change has no content",
    "Error: Cannot add '{path}', path was already written to in the same patch.",
    "Error: Cannot add '{path}', path was deleted or moved from in the same patch.",
    "Error: Failed to write new file",
    "Error: Unexpected exception during add - {e}",
    "Error: Unhandled change type '{change.type}'"}

\* status.startswith("Error: ")
IsErrorStatus(s) == s.lit \in ErrorLits

\* ---------------------------------------------------------- Context Matcher
\* seq[i:j] for 0 <= i (Python slices clamp at the end of the list).
PySlice(seq, i, j) == SubSeq(seq, i + 1, IF j < Len(seq) THEN j ELSE Len(seq))

\* Mutant of MinOf: the last element wins.
MaxOf(set) == CHOOSE x \in set : \A y \in set : y <= x

MinOf(set) == CHOOSE x \in set : \A y \in set : x <= y
Max2(a, b) == IF a >= b THEN a ELSE b

\* Fuzz of a match found after right-trimming, and after trimming, and the
\* penalty and window of an EOF-anchored search.
FUZZ_RSTRIP == 1
FUZZ_STRIP == 100
EOF_PENALTY == 10000
EOF_WINDOW == 5

\* Offsets i in range(start, len(lines) - len(context) + 1).
Offsets(lines, context, start) == start..(Len(lines) - Len(context))

\* def find_context_core(lines, context, start) -> (index, fuzz)
find_context_core(lines, context, start) ==
    LET n == Len(context)
        exact == {i \in Offsets(lines, context, start) :
                    PySlice(lines, i, i + n) = context}
        rstrip == {i \in Offsets(lines, context, start) :
                    MapRStrip(PySlice(lines, i, i + n)) = MapRStrip(context)}
        strip == {i \in Offsets(lines, context, start) :
                    MapStrip(PySlice(lines, i, i + n)) = MapStrip(context)}
    IN
    IF context = <<>> THEN [index |-> start, fuzz |-> 0]
    ELSE IF exact # {} THEN [index |-> MinOf(exact), fuzz |-> 0]
    ELSE IF rstrip # {} THEN [index |-> MinOf(rstrip), fuzz |-> FUZZ_RSTRIP]
    ELSE IF strip # {} THEN [index |-> MinOf(strip), fuzz |-> FUZZ_STRIP]
    ELSE [index |-> -1, fuzz |-> 0]

\* Mutant of find_context: the eof flag is ignored.
find_context_ignoring_eof(lines, context, start, eof) ==
    find_context_core(lines, context, start)

\* def find_context(lines, context, start, eof) -> (index, fuzz).  The last
\* return of the eof branch is the tuple (new_index, X) with
\* X = fuzz + 10_000 if <found and not at end> else -1.
find_context(lines, context, start, eof) ==
    LET AtEnd(r) == r.index # -1 /\ r.index + Len(context) = Len(lines)
        Fallback(far) ==
            [index |-> far.index,
             fuzz |-> IF far.index # -1 /\ far.index + Len(context) # Len(lines)
                      THEN far.fuzz + EOF_PENALTY ELSE -1]
        NearEnd(near) ==
            IF AtEnd(near) THEN near
            ELSE Fallback(find_context_core(lines, context, start))
    IN
    IF eof
    THEN NearEnd(find_context_core(lines, context,
                    Max2(start, Len(lines) - Len(context) - EOF_WINDOW)))
    ELSE find_context_core(lines, context, start)

\* ----------------------------------------------------------- Hunk Extractor
\* class Chunk
Chunk(orig_index, del_lines, ins_lines) ==
    [orig_index |-> orig_index, del_lines |-> del_lines, ins_lines |-> ins_lines]

\* Prefixes that end a section in peek_next_section.
SectionBreaks == {ATAT, END_PATCH, UPDATE_FILE, DELETE_FILE, ADD_FILE, END_OF_FILE}

\* Locals of peek_next_section at loop entry.
PeekStart(index) ==
    [index |-> index, context_lines |-> <<>>, del_lines |-> <<>>,
     ins_lines |-> <<>>, chunks |-> <<>>, mode |-> "keep", start |-> -1,
     raised |-> FALSE]

\* "prefix = s[0] if s else ' '", an unexpected prefix being treated as ' '.
PeekPrefix(s) ==
    IF s = <<>> THEN " "
    ELSE IF s[1] \notin {"+", "-", " "} THEN " " ELSE s[1]

\* Mutant of PeekContent: the first character is dropped from every line.
PeekContentTail(s) == IF s = <<>> THEN <<>> ELSE Tail(s)

\* "line_content = s[1:]", or the whole line under an unexpected prefix.
PeekContent(s) ==
    IF s = <<>> THEN <<>>
    ELSE IF s[1] \notin {"+", "-", " "} THEN s ELSE Tail(s)

PeekMode(prefix) ==
    CASE prefix = "+" -> "add"
      [] prefix = "-" -> "delete"
      [] OTHER -> "keep"

\* "Update state based on the new mode": the line is recorded.
PeekUpdate(ps, new_mode, line_content) ==
    [index |-> ps.index + 1,
     context_lines |-> IF new_mode = "add" THEN ps.context_lines
                       ELSE Append(ps.context_lines, line_content),
     del_lines |-> IF new_mode = "delete"
                   THEN Append(ps.del_lines, line_content) ELSE ps.del_lines,
     ins_lines |-> IF new_mode = "add"
                   THEN Append(ps.ins_lines, line_content) ELSE ps.ins_lines,
     chunks |-> ps.chunks,
     mode |-> new_mode,
     start |-> IF new_mode # "keep" /\ ps.start = -1
               THEN Len(ps.context_lines) ELSE ps.start,
     raised |-> FALSE]

\* "Chunk Logic": on a return to context the pending chunk is closed, which
\* raises DiffError when it has no start index.
PeekClose(ps, new_mode, line_content) ==
    LET closes == new_mode = "keep" /\ ps.mode # "keep"
        pending == ps.ins_lines # <<>> \/ ps.del_lines # <<>>
    IN
    IF closes /\ pending /\ ps.start = -1
    THEN [ps EXCEPT !.raised = TRUE]
    ELSE PeekUpdate(
            IF closes
            THEN [ps EXCEPT
                    !.chunks = IF pending
                               THEN Append(@, Chunk(ps.start, ps.del_lines,
                                                    ps.ins_lines))
                               ELSE @,
                    !.del_lines = <<>>,
                    !.ins_lines = <<>>,
                    !.start = -1]
            ELSE ps,
            new_mode, line_content)

\* One line s of a section is consumed.
PeekConsume(ps, s) == PeekClose(ps, PeekMode(PeekPrefix(s)), PeekContent(s))

\* The while loop of peek_next_section; it is left when DiffError is raised.
RECURSIVE PeekLoop(_, _)
PeekLoop(lines, ps) ==
    IF ps.raised THEN ps
    ELSE IF ps.index >= Len(lines) THEN ps
    ELSE IF StartsWithAny(lines[ps.index + 1], SectionBreaks) THEN ps
    ELSE IF lines[ps.index + 1] = STARS THEN ps
    ELSE IF /\ StartsWith(lines[ps.index + 1], STARS)
            /\ lines[ps.index + 1] # END_OF_FILE
    THEN [ps EXCEPT !.raised = TRUE]
    ELSE PeekLoop(lines, PeekConsume(ps, lines[ps.index + 1]))

PeekError == [kind |-> "DiffError", context |-> <<>>, chunks |-> <<>>,
              index |-> 0, eof |-> FALSE]

\* peek_next_section after its while loop, ps being the locals then.
PeekFinish(lines, index, ps) ==
    LET pending == ps.ins_lines # <<>> \/ ps.del_lines # <<>>
        is_eof == ps.index < Len(lines) /\ lines[ps.index + 1] = END_OF_FILE
        index1 == IF is_eof THEN ps.index + 1 ELSE ps.index
    IN
    IF ps.raised THEN PeekError
    ELSE IF /\ index1 = index
            /\ ~is_eof
            /\ ~(index1 < Len(lines)
                 /\ StartsWithAny(lines[index1 + 1], {ATAT, STARS}))
    THEN PeekError
    ELSE [kind |-> "ok", context |-> ps.context_lines,
          chunks |-> IF pending
                     THEN Append(ps.chunks,
                                 Chunk(IF ps.start = -1 THEN 0 ELSE ps.start,
                                       ps.del_lines, ps.ins_lines))
                     ELSE ps.chunks,
          index |-> index1, eof |-> is_eof]

\* def peek_next_section(lines, index) -> (context_lines, chunks, index, is_eof)
peek_next_section(lines, index) ==
    PeekFinish(lines, index, PeekLoop(lines, PeekStart(index)))

\* ------------------------------------------------------------- Line Cursor
\* Parser.is_done(prefixes), for the parser at position index of lines.
is_done(lines, index, prefixes) ==
    \/ index >= Len(lines)
    \/ prefixes # {} /\ StartsWithAny(Norm(lines[index + 1]), prefixes)

\* Parser.read_str(prefix): Parser._cur_line raises DiffError past the end;
\* a line that starts with the prefix is consumed and its remainder
\* returned, otherwise "" is returned and nothing is consumed.
read_str(lines, index, prefix) ==
    IF index >= Len(lines)
    THEN [kind |-> "DiffError", text |-> <<>>, index |-> index]
    ELSE IF StartsWith(Norm(lines[index + 1]), prefix)
    THEN [kind |-> "ok", text |-> DropFirst(lines[index + 1], Len(prefix)),
          index |-> index + 1]
    ELSE [kind |-> "ok", text |-> <<>>, index |-> index]

\* Prefixes that end the body of a file directive.
FileBreaks == {END_PATCH, UPDATE_FILE, DELETE_FILE, ADD_FILE}

\* ------------------------------------------------------------ Patch Parser
\* class PatchAction
PatchAction(type, new_file, chunks, move_path) ==
    [type |-> type, new_file |-> new_file, chunks |-> chunks, move_path |-> move_path]

\* The smallest i >= index with P(lines[i]) in _parse_update_file's
\* "for i, s in enumerate(lines[index:], index)", or -1.
LabelExact(lines, index, def_str) ==
    LET hits == {i \in index..(Len(lines) - 1) : lines[i + 1] = def_str}
    IN IF hits = {} THEN -1 ELSE MinOf(hits)

LabelStripped(lines, index, def_str) ==
    LET hits == {i \in index..(Len(lines) - 1) : Strip(lines[i + 1]) = Strip(def_str)}
    IN IF hits = {} THEN -1 ELSE MinOf(hits)

\* Mutant of LocateLabel: a label found after trimming adds no fuzz.
LocateLabelUncounted(lines, index, def_str) ==
    IF LabelExact(lines, index, def_str) # -1
    THEN [found |-> TRUE, index |-> LabelExact(lines, index, def_str) + 1,
          fuzz |-> 0]
    ELSE IF LabelStripped(lines, index, def_str) # -1
    THEN [found |-> TRUE, index |-> LabelStripped(lines, index, def_str) + 1,
          fuzz |-> 0]
    ELSE [found |-> FALSE, index |-> index, fuzz |-> 0]

\* The "@@ <label>" search of _parse_update_file: the new scan position and
\* the fuzz added, or found = FALSE.
LocateLabel(lines, index, def_str) ==
    LET before == PySlice(lines, 0, index)
        e == IF InSeq(def_str, before) THEN -1 ELSE LabelExact(lines, index, def_str)
        f == IF InSeq(Strip(def_str), MapStrip(before))
             THEN -1 ELSE LabelStripped(lines, index, def_str)
    IN
    IF e # -1 THEN [found |-> TRUE, index |-> e + 1, fuzz |-> 0]
    ELSE IF f # -1 THEN [found |-> TRUE, index |-> f + 1, fuzz |-> 1]
    ELSE [found |-> FALSE, index |-> index, fuzz |-> 0]

\* Mutant of OffsetChunks: the chunks keep their offsets within the section.
OffsetChunksNot(chunks, new_index) == chunks

\* chunk.orig_index += new_index, for every chunk of a section.
OffsetChunks(chunks, new_index) ==
    [i \in 1..Len(chunks) |->
        [chunks[i] EXCEPT !.orig_index = chunks[i].orig_index + new_index]]

UpdateResult(kind, st) ==
    [kind |-> kind, index |-> st.index, fuzz |-> st.fuzz, chunks |-> st.chunks]

\* The while loop of Parser._parse_update_file over the patch lines plines,
\* for the original lines olines.  st = [index (self.index), fuzz
\* (self.fuzz), oindex (the local index), chunks (action.chunks)].  An
\* iteration that consumes no patch line leaves every variable as it was,
\* so the loop never ends: kind "hang".
RECURSIVE UpdateLoop(_, _, _)
UpdateLoop(plines, olines, st) ==
    LET \* after "index = new_index + len(next_ctx)": self.index = end_idx
        Matched(loc, sec, fc) ==
            IF fc.index = -1 THEN UpdateResult("DiffError", st)
            ELSE IF sec.index = st.index THEN UpdateResult("hang", st)
            ELSE UpdateLoop(plines, olines,
                    [index |-> sec.index,
                     fuzz |-> st.fuzz + loc.fuzz + fc.fuzz,
                     oindex |-> fc.index + Len(sec.context),
                     chunks |-> st.chunks \o OffsetChunks(sec.chunks, fc.index)])
        \* after the label search and peek_next_section(self.lines, self.index)
        Located(loc, sec) ==
            IF ~loc.found THEN UpdateResult("DiffError", st)
            ELSE IF sec.kind # "ok" THEN UpdateResult("DiffError", st)
            ELSE Matched(loc, sec,
                         find_context(olines, sec.context, loc.index, sec.eof))
        \* after def_str = self.read_str("@@ ")
        Section(rd) ==
            LET def_str == rd.text
                \* "if not def_str and self._norm(self._cur_line()) == "@@""
                peeks_cur == def_str = <<>>
                past_end == peeks_cur /\ rd.index >= Len(plines)
                bare == peeks_cur /\ ~past_end /\ Norm(plines[rd.index + 1]) = ATAT
                pindex == IF bare THEN rd.index + 1 ELSE rd.index
                has_label == Strip(def_str) # <<>>
            IN
            IF past_end THEN UpdateResult("DiffError", st)
            ELSE Located(IF has_label
                         THEN LocateLabel(olines, st.oindex, def_str)
                         ELSE [found |-> TRUE, index |-> st.oindex, fuzz |-> 0],
                         peek_next_section(plines, pindex))
    IN
    IF is_done(plines, st.index, FileBreaks) THEN UpdateResult("ok", st)
    ELSE Section(read_str(plines, st.index, ATAT \o SP))

\* Parser._parse_update_file(text), entered at self.index = index with
\* self.fuzz = fuzz.
parse_update_file(plines, index, fuzz, text) ==
    UpdateLoop(plines, SplitNL(text),
               [index |-> index, fuzz |-> fuzz, oindex |-> 0, chunks |-> <<>>])

\* Mutant of AddLoop: a line without a leading '+' is taken as it is.
RECURSIVE AddLoopLenient(_, _, _)
AddLoopLenient(plines, index, acc) ==
    IF is_done(plines, index, FileBreaks)
    THEN [kind |-> "ok", index |-> index, new_file |-> JoinNL(acc)]
    ELSE AddLoopLenient(plines, index + 1,
            Append(acc, IF StartsWith(plines[index + 1], <<"+">>)
                        THEN Tail(plines[index + 1]) ELSE plines[index + 1]))

\* The while loop of Parser._parse_add_file: acc are the lines read so far.
RECURSIVE AddLoop(_, _, _)
AddLoop(plines, index, acc) ==
    IF is_done(plines, index, FileBreaks)
    THEN [kind |-> "ok", index |-> index, new_file |-> JoinNL(acc)]
    ELSE LET s == plines[index + 1] IN
         IF ~StartsWith(s, <<"+">>)
         THEN [kind |-> "DiffError", index |-> index + 1, new_file |-> <<>>]
         ELSE AddLoop(plines, index + 1, Append(acc, Tail(s)))

\* Parser._parse_add_file()
parse_add_file(plines, index) == AddLoop(plines, index, <<>>)

\* class Patch: the insertion-ordered dict path -> PatchAction, as the
\* sequence of its items.
\* Mutant of HasAction: no path is ever found in self.patch.actions.
HasActionNever(actions, path) == FALSE

HasAction(actions, path) == \E i \in 1..Len(actions) : actions[i].path = path

ParseResult(kind, st) == [kind |-> kind, patch |-> st.actions, fuzz |-> st.fuzz]

\* Mutant of InCurrentFiles: no path is ever found in self.current_files.
InCurrentFilesNever(orig, path) == FALSE

\* path in self.current_files
InCurrentFiles(orig, path) == path \in DOMAIN orig

\* The while loop of Parser.parse over the patch lines plines with
\* current_files = orig.  st = [index, fuzz, actions].
RECURSIVE ParseLoop(_, _, _)
ParseLoop(plines, orig, st) ==
    LET With(path, action) ==
            Append(st.actions, [path |-> path, action |-> action])
        \* after action = self._parse_update_file(text)
        Updated(path, mv, upd) ==
            IF upd.kind # "ok" THEN ParseResult(upd.kind, st)
            ELSE ParseLoop(plines, orig,
                    [index |-> upd.index, fuzz |-> upd.fuzz,
                     actions |-> With(path,
                        PatchAction(UPDATE, None, upd.chunks,
                            IF mv.text # <<>> THEN Some(mv.text) ELSE None))])
        \* after move_to = self.read_str("*** Move to: ")
        Update(path, mv) ==
            IF mv.kind # "ok" THEN ParseResult("DiffError", st)
            ELSE IF ~InCurrentFiles(orig, path) THEN ParseResult("DiffError", st)
            ELSE Updated(path, mv,
                    parse_update_file(plines, mv.index, st.fuzz, orig[path]))
        \* after self.patch.actions[path] = self._parse_add_file()
        Added(path, add) ==
            IF add.kind # "ok" THEN ParseResult("DiffError", st)
            ELSE ParseLoop(plines, orig,
                    [index |-> add.index, fuzz |-> st.fuzz,
                     actions |-> With(path,
                        PatchAction(ADD, Some(add.new_file), <<>>, None))])
        \* after path = self.read_str("*** Add File: ")
        Add(a) ==
            IF a.kind # "ok" THEN ParseResult("DiffError", st)
            ELSE IF a.text = <<>> THEN ParseResult("DiffError", st)
            ELSE IF HasAction(st.actions, a.text) THEN ParseResult("DiffError", st)
            ELSE IF InCurrentFiles(orig, a.text) THEN ParseResult("DiffError", st)
            ELSE Added(a.text, parse_add_file(plines, a.index))
        \* after path = self.read_str("*** Delete File: ")
        Delete(d) ==
            IF d.kind # "ok" THEN ParseResult("DiffError", st)
            ELSE IF d.text = <<>>
            THEN Add(read_str(plines, d.index, ADD_FILE \o SP))
            ELSE IF HasAction(st.actions, d.text) THEN ParseResult("DiffError", st)
            ELSE IF ~InCurrentFiles(orig, d.text) THEN ParseResult("DiffError", st)
            ELSE ParseLoop(plines, orig,
                    [index |-> d.index, fuzz |-> st.fuzz,
                     actions |-> With(d.text,
                        PatchAction(DELETE, None, <<>>, None))])
        \* after path = self.read_str("*** Update File: ")
        Directive(u) ==
            IF u.text = <<>>
            THEN Delete(read_str(plines, u.index, DELETE_FILE \o SP))
            ELSE IF HasAction(st.actions, u.text) THEN ParseResult("DiffError", st)
            ELSE Update(u.text, read_str(plines, u.index, MOVE_TO \o SP))
    IN
    IF is_done(plines, st.index, {END_PATCH}) THEN ParseResult("ok", st)
    ELSE Directive(read_str(plines, st.index, UPDATE_FILE \o SP))

\* Parser(current_files=orig, lines=plines, index=0).parse()
Parse(plines, orig) ==
    ParseLoop(plines, orig, [index |-> 0, fuzz |-> 0, actions |-> <<>>])

\* def text_to_patch(text, orig) -> (Patch, fuzz): kind is "ok", "DiffError"
\* when it raises, "hang" when it does not return.
text_to_patch(text, orig) ==
    LET failed == [kind |-> "DiffError", patch |-> <<>>, fuzz |-> 0]
        Framed(lines, start_index, end_index) ==
            IF end_index = -1 THEN failed
            ELSE IF start_index > end_index THEN failed
            ELSE Parse(PySlice(lines, start_index, end_index), orig)
        LastEnd(lines, start_index) ==
            LET ends == {i \in (start_index - 1)..(Len(lines) - 1) :
                           i >= 0 /\ Norm(lines[i + 1]) = END_PATCH}
            IN IF ends = {} THEN -1
               ELSE CHOOSE i \in ends : \A j \in ends : j <= i
        Started(lines, start_index) ==
            IF start_index = -1 THEN failed
            ELSE Framed(lines, start_index, LastEnd(lines, start_index))
        FirstBegin(lines) ==
            LET begins == {i \in 0..(Len(lines) - 1) :
                             StartsWith(Norm(lines[i + 1]), BEGIN_PATCH)}
            IN IF begins = {} THEN -1 ELSE MinOf(begins) + 1
        Split(lines) ==
            IF lines = <<>> THEN failed
            ELSE Started(lines, FirstBegin(lines))
    IN Split(SplitLines(text))

\* def identify_files_needed(text) -> sorted list of paths; here the set.
RECURSIVE NeededFrom(_, _, _, _)
NeededFrom(lines, i, in_patch_section, needed) ==
    IF i > Len(lines) THEN needed
    ELSE
    LET norm_line == Norm(lines[i])
        upath == Strip(DropFirst(norm_line, Len(UPDATE_FILE \o SP)))
        dpath == Strip(DropFirst(norm_line, Len(DELETE_FILE \o SP)))
    IN
    IF StartsWith(norm_line, BEGIN_PATCH) THEN NeededFrom(lines, i + 1, TRUE, needed)
    ELSE IF norm_line = END_PATCH THEN needed
    ELSE IF ~in_patch_section THEN NeededFrom(lines, i + 1, in_patch_section, needed)
    ELSE IF StartsWith(norm_line, UPDATE_FILE \o SP)
    THEN NeededFrom(lines, i + 1, in_patch_section,
                    IF upath # <<>> THEN needed \cup {upath} ELSE needed)
    ELSE IF StartsWith(norm_line, DELETE_FILE \o SP)
    THEN NeededFrom(lines, i + 1, in_patch_section,
                    IF dpath # <<>> THEN needed \cup {dpath} ELSE needed)
    ELSE NeededFrom(lines, i + 1, in_patch_section, needed)

identify_files_needed(text) == NeededFrom(SplitLines(text), 1, FALSE, {})

\* --------------------------------------------------- Patch -> Commit Compiler
\* sorted(action.chunks, key=lambda c: c.orig_index): a stable sort.
RECURSIVE InsertChunk(_, _)
InsertChunk(sorted, c) ==
    IF sorted = <<>> THEN <<c>>
    ELSE IF sorted[Len(sorted)].orig_index <= c.orig_index THEN Append(sorted, c)
    ELSE Append(InsertChunk(SubSeq(sorted, 1, Len(sorted) - 1), c), sorted[Len(sorted)])

RECURSIVE SortChunks(_)
SortChunks(chunks) ==
    IF chunks = <<>> THEN <<>>
    ELSE InsertChunk(SortChunks(SubSeq(chunks, 1, Len(chunks) - 1)), chunks[Len(chunks)])

\* s.endswith("\n")
EndsWithNL(s) == s # <<>> /\ s[Len(s)] = "\n"

\* Mutant of ApplyChunks: a chunk may start inside the range deleted by the
\* chunk before it.
RECURSIVE ApplyChunksOverlapping(_, _, _, _, _)
ApplyChunksOverlapping(orig_lines, chunks, k, dest_lines, orig_file_index) ==
    IF k > Len(chunks)
    THEN [raised |-> FALSE,
          dest_lines |-> dest_lines \o
                PySlice(orig_lines, orig_file_index, Len(orig_lines))]
    ELSE IF \/ chunks[k].orig_index < 0
            \/ chunks[k].orig_index + Len(chunks[k].del_lines) > Len(orig_lines)
    THEN [raised |-> TRUE, dest_lines |-> <<>>]
    ELSE ApplyChunksOverlapping(orig_lines, chunks, k + 1,
            dest_lines \o PySlice(orig_lines, orig_file_index, chunks[k].orig_index)
                       \o chunks[k].ins_lines,
            chunks[k].orig_index + Len(chunks[k].del_lines))

\* Mutant of ApplyChunks: the deleted lines are verified but not skipped.
RECURSIVE ApplyChunksKeepingDeleted(_, _, _, _, _)
ApplyChunksKeepingDeleted(orig_lines, chunks, k, dest_lines, orig_file_index) ==
    IF k > Len(chunks)
    THEN [raised |-> FALSE,
          dest_lines |-> dest_lines \o
                PySlice(orig_lines, orig_file_index, Len(orig_lines))]
    ELSE IF chunks[k].orig_index + Len(chunks[k].del_lines) > Len(orig_lines)
    THEN [raised |-> TRUE, dest_lines |-> <<>>]
    ELSE ApplyChunksKeepingDeleted(orig_lines, chunks, k + 1,
            dest_lines \o PySlice(orig_lines, orig_file_index, chunks[k].orig_index)
                       \o chunks[k].ins_lines,
            chunks[k].orig_index)

\* The for loop of _get_updated_file over the sorted chunks from position k:
\* dest_lines and orig_file_index so far; raised when a check fails.
RECURSIVE ApplyChunks(_, _, _, _, _)
ApplyChunks(orig_lines, chunks, k, dest_lines, orig_file_index) ==
    IF k > Len(chunks)
    THEN [raised |-> FALSE,
          dest_lines |-> dest_lines \o
                PySlice(orig_lines, orig_file_index, Len(orig_lines))]
    ELSE
    LET chunk == chunks[k]
        n == Len(orig_lines)
        expected_end_index == chunk.orig_index + Len(chunk.del_lines)
        original_deleted_section ==
            PySlice(orig_lines, chunk.orig_index, expected_end_index)
        failed == [raised |-> TRUE, dest_lines |-> <<>>]
    IN
    IF (chunk.orig_index < 0 \/ chunk.orig_index > n)
       /\ ~(chunk.orig_index = n /\ chunk.del_lines = <<>>)
    THEN failed
    ELSE IF orig_file_index > chunk.orig_index THEN failed
    ELSE IF expected_end_index > n THEN failed
    ELSE IF /\ original_deleted_section # chunk.del_lines
            /\ MapStrip(original_deleted_section) # MapStrip(chunk.del_lines)
    THEN failed
    ELSE ApplyChunks(orig_lines, chunks, k + 1,
            dest_lines \o PySlice(orig_lines, orig_file_index, chunk.orig_index)
                       \o chunk.ins_lines,
            expected_end_index)

\* Mutant of WithTrailingNewline: the joined lines are returned as they are.
WithTrailingNewlineNever(text, final_content) == final_content

\* Mutant of WithTrailingNewline: a newline is appended whenever the result
\* lacks one.
WithTrailingNewlineAlways(text, final_content) ==
    IF final_content # <<>> /\ ~EndsWithNL(final_content)
    THEN final_content \o <<"\n">>
    ELSE final_content

\* The trailing-newline rule at the end of _get_updated_file.
WithTrailingNewline(text, final_content) ==
    IF EndsWithNL(text) /\ ~EndsWithNL(final_content) /\ final_content # <<>>
    THEN final_content \o <<"\n">>
    ELSE IF text = <<>> /\ final_content # <<>> /\ ~EndsWithNL(final_content)
    THEN final_content \o <<"\n">>
    ELSE final_content

\* def _get_updated_file(text, action, path) -> str, or raises DiffError.
get_updated_file(text, action) ==
    LET r == ApplyChunks(SplitNL(text), SortChunks(action.chunks), 1, <<>>, 0)
    IN
    IF action.type # UPDATE THEN [kind |-> "DiffError", content |-> <<>>]
    ELSE IF r.raised THEN [kind |-> "DiffError", content |-> <<>>]
    ELSE [kind |-> "ok",
          content |-> WithTrailingNewline(text, JoinNL(r.dest_lines))]

\* class FileChange as stored in Commit.changes under path.  old_content is
\* left out: nothing reads it.
FileChange(path, type, new_content, move_path) ==
    [path |-> path, type |-> type, new_content |-> new_content,
     move_path |-> move_path]

\* The for loop of patch_to_commit from item k of patch.actions.
RECURSIVE CommitFrom(_, _, _, _)
CommitFrom(patch, orig, k, acc) ==
    IF k > Len(patch) THEN [kind |-> "ok", commit |-> acc]
    ELSE
    LET path == patch[k].path
        action == patch[k].action
        upd == get_updated_file(orig[path], action)
        failed == [kind |-> "DiffError", commit |-> <<>>]
    IN
    CASE action.type = DELETE ->
            CommitFrom(patch, orig, k + 1,
                       Append(acc, FileChange(path, DELETE, None, None)))
      [] action.type = ADD ->
            IF ~action.new_file.some THEN failed
            ELSE CommitFrom(patch, orig, k + 1,
                            Append(acc, FileChange(path, ADD, action.new_file, None)))
      [] action.type = UPDATE ->
            IF path \notin DOMAIN orig THEN failed
            ELSE IF upd.kind # "ok" THEN failed
            ELSE CommitFrom(patch, orig, k + 1,
                            Append(acc, FileChange(path, UPDATE, Some(upd.content),
                                                   action.move_path)))

\* def patch_to_commit(patch, orig) -> Commit, or raises DiffError.
patch_to_commit(patch, orig) == CommitFrom(patch, orig, 1, <<>>)

\* ------------------------------------------------------------------- state
VARIABLES
    pc,                   \* control position
    commit0,              \* the commit as passed to apply_commit
    changes,              \* commit.changes, mutated by del
    snapshot,             \* list(commit.changes.items()) of the running loop
    idx,                  \* position of the running loop in its sequence
    results,              \* results: path -> status
    target_paths_written, \* set of paths written successfully
    moved_sources,        \* set of paths removed (deleted or moved away)
    calls,                \* the callbacks invoked so far, in order
    fs,                   \* the file system behind write_fn / remove_fn
    patch_content,        \* plan.patch_content
    needed_files,         \* needed_files of execute_apply_patch
    original_files,       \* original_files of execute_apply_patch
    outcome,              \* how reading, parsing and compiling ended
    parsed_patch,         \* parsed_patch, None until text_to_patch returns
    result,               \* the ApplyPatchResult returned, None until then
    search,               \* the arguments of a context search, None without one
    match,                \* what the context search returned, None until then
    fuzz                  \* the fuzz text_to_patch returned, None until then

\* The locals of execute_apply_patch.
execVars == <<patch_content, needed_files, original_files, outcome,
              parsed_patch, result>>

vars == <<pc, commit0, changes, snapshot, idx, results,
          target_paths_written, moved_sources, calls, fs, execVars, search, match,
          fuzz>>

\* The variables of a context search.
matchVars == <<search, match>>

\* Outcomes of a callback: it returns True, returns False, or raises.
Outcomes == {"true", "false", "raise"}

Call(fn, p, content, o, pass, owner) ==
    [fn |-> fn, path |-> p, content |-> content, outcome |-> o,
     pass |-> pass, owner |-> owner]

\* Effect of write_fn(p, content) on the file system.
WriteFs(f, p, content, o) ==
    IF o = "true"
    THEN [q \in DOMAIN f \cup {p} |-> IF q = p THEN Some(content) ELSE f[q]]
    ELSE f

\* Effect of remove_fn(p) on the file system.
RemoveFs(f, p, o) ==
    IF o = "true"
    THEN [q \in DOMAIN f \cup {p} |-> IF q = p THEN None ELSE f[q]]
    ELSE f

\* results[path] = status
SetResult(r, p, s) == [q \in DOMAIN r \cup {p} |-> IF q = p THEN s ELSE r[q]]

EmptyMap == [q \in {} |-> None]

\* ------------------------------------------------------------ apply_commit
\* Mutant of AfterBody: no handler, what a callback raises leaves apply_commit.
AfterBodyNoHandler(here, raised) == IF raised THEN "raised" ELSE here

\* try: ... except Exception: the handler of each loop body catches what a
\* callback raises, and the loop goes on.
AfterBody(here, raised) == here

\* Pass 1, the status recorded for a Delete from what remove_fn did.
DeleteStatus(o) ==
    CASE o = "true" -> Status("Deleted", <<>>)
      [] o = "false" -> Status("Deleted (or already missing)", <<>>)
      [] o = "raise" ->
            Status("Error: Unexpected exception during delete - {e}", <<>>)

\* Pass 1, moved_sources.add(path): in both branches of the if, not in the
\* exception handler.
DeleteMarks(moved, p, o) ==
    IF o = "raise" THEN moved ELSE moved \cup {p}

\* target = change.move_path or path
TargetOf(ch) == IF Truthy(ch.move_path) THEN ch.move_path.val ELSE ch.path

\* Pass 2, the checks before the write; Some(status) when the change is
\* rejected (the loop body ends with continue), None otherwise.
UpdateRejection(ch, written, moved) ==
    LET target == TargetOf(ch) IN
    IF ~ch.new_content.some
    THEN Some(Status("Error: UPDATE change has no new content", <<>>))
    ELSE IF target # ch.path /\ target \in written
    THEN Some(Status("Error: Cannot move/update to '{target}', it was modified in the same patch.", target))
    ELSE IF ch.path \in moved
    THEN Some(Status("Error: Cannot update '{path}', it was deleted in the same patch.", ch.path))
    ELSE None

\* Mutant of RemovesSource: the source of a move is removed whatever the
\* write returned.
RemovesSourceUnconditionally(ch, moved, w) ==
    w # "raise" /\ Truthy(ch.move_path) /\ ch.path \notin moved

\* Pass 2, whether remove_fn(path) is called after write_fn returned w.
RemovesSource(ch, moved, w) ==
    w = "true" /\ Truthy(ch.move_path) /\ ch.path \notin moved

\* Mutant of MovedStatus: the status of the docstring, without the target.
MovedStatusBare(target) == Status("Moved", <<>>)

\* f"Moved to {target}"
MovedStatus(target) == Status("Moved to ", target)

\* Pass 2, the status recorded once write_fn returned w and, for a move,
\* remove_fn returned r.
UpdateStatus(ch, moved, w, r) ==
    LET target == TargetOf(ch) IN
    CASE w = "raise" ->
            Status("Error: Unexpected exception during update/move - {e}", <<>>)
      [] w = "false" -> Status("Error: Failed to write update to {target}", target)
      [] w = "true" /\ ~Truthy(ch.move_path) -> Status("Updated", <<>>)
      [] w = "true" /\ Truthy(ch.move_path) /\ ch.path \in moved ->
            Status("Moved to {target} (original already handled)", target)
      [] w = "true" /\ Truthy(ch.move_path) /\ ch.path \notin moved ->
            CASE r = "true" -> MovedStatus(target)
              [] r = "false" ->
                    Status("Error: Updated at {target}, but failed to remove original {path}", target)
              [] r = "raise" ->
                    Status("Error: Unexpected exception during update/move - {e}", <<>>)

\* Mutant of WrittenAfter: the written target is not recorded.
WrittenAfterForgets(written, target, w) == written

\* target_paths_written.add(target) after a successful write.
WrittenAfter(written, target, w) ==
    IF w = "true" THEN written \cup {target} ELSE written

\* Pass 3, the checks before the write of an Add.
AddRejection(ch, written, moved) ==
    IF ~ch.new_content.some
    THEN Some(Status("Error: ADD change has no content", <<>>))
    ELSE IF ch.path \in written
    THEN Some(Status("Error: Cannot add '{path}', path was already written to in the same patch.", ch.path))
    ELSE IF ch.path \in moved
    THEN Some(Status("Error: Cannot add '{path}', path was deleted or moved from in the same patch.", ch.path))
    ELSE None

\* Pass 3, the status recorded for an Add from what write_fn did.
AddStatus(w) ==
    CASE w = "true" -> Status("Added", <<>>)
      [] w = "false" -> Status("Error: Failed to write new file", <<>>)
      [] w = "raise" -> Status("Error: Unexpected exception during add - {e}", <<>>)

\* Mutant of NextPass: the adds are applied before the updates.
NextPassAddsFirst(here) ==
    CASE here = "deletes" -> "adds"
      [] here = "adds" -> "updates"
      [] here = "updates" -> "return"

\* The three loops run one after the other: deletes, updates, adds, return.
NextPass(here) ==
    CASE here = "deletes" -> "updates"
      [] here = "updates" -> "adds"
      [] here = "adds" -> "return"

\* Body of the first loop, for snapshot[idx]: a Delete is removed.
ProcessDelete ==
    /\ pc = "deletes"
    /\ idx <= Len(snapshot)
    /\ LET ch == snapshot[idx] IN
       IF ch.type = DELETE
       THEN \E o \in Outcomes :
              /\ calls' = Append(calls, Call("remove", ch.path, None, o, "delete", ch.path))
              /\ fs' = RemoveFs(fs, ch.path, o)
              /\ results' = SetResult(results, ch.path, DeleteStatus(o))
              /\ moved_sources' = DeleteMarks(moved_sources, ch.path, o)
              /\ changes' = DelChange(changes, ch.path)
              /\ pc' = AfterBody("deletes", o = "raise")
       ELSE UNCHANGED <<calls, fs, results, moved_sources, changes, pc>>
    /\ idx' = idx + 1
    /\ UNCHANGED <<commit0, snapshot, target_paths_written, execVars>>
    /\ UNCHANGED matchVars
    /\ UNCHANGED fuzz

\* Body of the second loop, for snapshot[idx]: an Update is written to
\* its target and, for a move, its source removed.
ProcessUpdate ==
    /\ pc = "updates"
    /\ idx <= Len(snapshot)
    /\ LET ch == snapshot[idx]
           rej == UpdateRejection(ch, target_paths_written, moved_sources)
           target == TargetOf(ch)
       IN
       IF ch.type # UPDATE
       THEN UNCHANGED <<calls, fs, results, moved_sources, changes, pc,
                        target_paths_written>>
       ELSE IF rej.some
       THEN /\ results' = SetResult(results, ch.path, rej.val)
            /\ UNCHANGED <<calls, fs, moved_sources, changes, pc,
                           target_paths_written>>
       ELSE \E w \in Outcomes :
              LET wcall == Call("write", target, ch.new_content, w, "update", ch.path)
                  fs1 == WriteFs(fs, target, ch.new_content.val, w)
              IN
              /\ target_paths_written' = WrittenAfter(target_paths_written, target, w)
              /\ changes' = DelChange(changes, ch.path)
              /\ IF RemovesSource(ch, moved_sources, w)
                 THEN \E r \in Outcomes :
                        /\ calls' = calls \o <<wcall,
                               Call("remove", ch.path, None, r, "update", ch.path)>>
                        /\ fs' = RemoveFs(fs1, ch.path, r)
                        /\ results' = SetResult(results, ch.path,
                                          UpdateStatus(ch, moved_sources, w, r))
                        /\ moved_sources' =
                              IF r = "true" THEN moved_sources \cup {ch.path}
                                            ELSE moved_sources
                        /\ pc' = AfterBody("updates", r = "raise")
                 ELSE /\ calls' = Append(calls, wcall)
                      /\ fs' = fs1
                      /\ results' = SetResult(results, ch.path,
                                        UpdateStatus(ch, moved_sources, w, "true"))
                      /\ UNCHANGED moved_sources
                      /\ pc' = AfterBody("updates", w = "raise")
    /\ idx' = idx + 1
    /\ UNCHANGED <<commit0, snapshot, execVars>>
    /\ UNCHANGED matchVars
    /\ UNCHANGED fuzz

\* Body of the third loop, over commit.changes itself: an Add is written;
\* anything else left in the dict is reported as unhandled.
ProcessAdd ==
    /\ pc = "adds"
    /\ idx <= Len(snapshot)
    /\ LET ch == snapshot[idx]
           rej == AddRejection(ch, target_paths_written, moved_sources)
       IN
       IF ch.type # ADD
       THEN /\ results' = SetResult(results, ch.path,
                              Status("Error: Unhandled change type '{change.type}'", <<>>))
            /\ UNCHANGED <<calls, fs, pc, target_paths_written>>
       ELSE IF rej.some
       THEN /\ results' = SetResult(results, ch.path, rej.val)
            /\ UNCHANGED <<calls, fs, pc, target_paths_written>>
       ELSE \E w \in Outcomes :
              /\ calls' = Append(calls,
                     Call("write", ch.path, ch.new_content, w, "add", ch.path))
              /\ fs' = WriteFs(fs, ch.path, ch.new_content.val, w)
              /\ results' = SetResult(results, ch.path, AddStatus(w))
              /\ target_paths_written' = WrittenAfter(target_paths_written, ch.path, w)
              /\ pc' = AfterBody("adds", w = "raise")
    /\ idx' = idx + 1
    /\ UNCHANGED <<commit0, snapshot, changes, moved_sources, execVars>>
    /\ UNCHANGED matchVars
    /\ UNCHANGED fuzz

\* A loop is exhausted: the next one starts over what is left in
\* commit.changes, or apply_commit returns results.
EndOfPass ==
    /\ pc \in {"deletes", "updates", "adds"}
    /\ idx > Len(snapshot)
    /\ pc' = NextPass(pc)
    /\ snapshot' = changes
    /\ idx' = 1
    /\ UNCHANGED <<commit0, changes, results, target_paths_written,
                   moved_sources, calls, fs, execVars>>
    /\ UNCHANGED matchVars
    /\ UNCHANGED fuzz

\* The file system a commit is applied to: the files it updates or deletes
\* exist, the others do not.
FsFor(cs) ==
    [p \in CommitPaths |->
        IF \E i \in 1..Len(cs) : cs[i].path = p /\ cs[i].type \in {UPDATE, DELETE}
        THEN Some(OldContentFor(p)) ELSE None]

\* Nothing read, parsed or compiled yet.
NoOutcome == [read |-> "none", parse |-> "none", compile |-> "none"]

\* apply_commit(commit, write_fn, remove_fn) is entered.
InitApply ==
    /\ commit0 \in Commits
    /\ changes = commit0
    /\ snapshot = commit0
    /\ idx = 1
    /\ pc = "deletes"
    /\ results = EmptyMap
    /\ target_paths_written = {}
    /\ moved_sources = {}
    /\ calls = <<>>
    /\ fs = FsFor(commit0)
    /\ patch_content = <<>>
    /\ needed_files = {}
    /\ original_files = EmptyMap
    /\ outcome = NoOutcome
    /\ parsed_patch = None
    /\ result = None
    /\ search = None
    /\ match = None
    /\ fuzz = None

NextApply == ProcessDelete \/ ProcessUpdate \/ ProcessAdd \/ EndOfPass

SpecApply == InitApply /\ [][NextApply]_vars

\* ----------------------------------------------------- execute_apply_patch
\* Largest number of lines between the sentinels of a patch text.
MaxBodyLines == 3

\* Lines the patch bodies are drawn from; one names a file called Error.
BodyLines == {
    UPDATE_FILE \o SP \o <<"a">>,
    MOVE_TO \o SP \o <<"c">>,
    MOVE_TO \o SP \o <<"E", "r", "r", "o", "r">>,
    DELETE_FILE \o SP \o <<"b">>,
    ADD_FILE \o SP \o <<"c">>,
    <<" ", "x">>,
    <<"+", "y">>,
    <<"-", "x">>,
    <<"-", "q">>,
    ATAT,
    STARS}

Bodies == UNION {[1..n -> BodyLines] : n \in 0..MaxBodyLines}

\* The patch texts: a body between both sentinels, or with one missing.
PatchTexts ==
    {JoinNL(pre \o body \o post) \o <<"\n">> :
        body \in Bodies,
        pre \in {<<BEGIN_PATCH>>},
        post \in {<<END_PATCH>>}}
    \cup {JoinNL(body \o <<END_PATCH>>) \o <<"\n">> : body \in Bodies}
    \cup {JoinNL(<<BEGIN_PATCH>> \o body) \o <<"\n">> : body \in Bodies}

\* The files on disk when execute_apply_patch is called: a and b hold one
\* line or are missing, c is missing.
DiskStates ==
    {[p \in CommitPaths |->
        IF p \in present THEN Some(<<"x", "\n">>) ELSE None] :
        present \in SUBSET {<<"a">>, <<"b">>}}

\* ExecutorAgent._read_file_content(file_path)[0]: None for a missing file
\* and when reading fails.
read_file_content(f, p, io_error) ==
    IF p \notin DOMAIN f \/ ~f[p].some \/ io_error THEN None ELSE f[p]

\* Mutant of ProceedsAfter: DiffError is swallowed and what was built so far
\* is used.
ProceedsAfterAnyway(kind) == kind # "hang"

\* Inside the try block the next statement runs only when the call returned.
ProceedsAfter(kind) == kind = "ok"

\* ApplyPatchResult(status, file_results)
ApplyPatchResult(status, file_results) ==
    Some([status |-> status, file_results |-> file_results])

\* sub in s
HasSubstring(s, sub) ==
    \E i \in 1..(Len(s) - Len(sub) + 1) : SubSeq(s, i, i + Len(sub) - 1) = sub

\* "Error" in status: so for every literal in ErrorLits, for no other
\* literal of apply_commit, and whenever the interpolated path holds it.
ContainsError(status) ==
    IsErrorStatus(status) \/ HasSubstring(status.arg, <<"E", "r", "r", "o", "r">>)

\* Step 7 of execute_apply_patch: the overall status from the two flags.
FinalStatus(has_errors, has_success) ==
    IF has_errors /\ has_success THEN "Partial Success"
    ELSE IF has_errors /\ ~has_success THEN "Failure"
    ELSE "Success"

\* Step 1: needed_files = identify_files_needed(plan.patch_content)
Identify ==
    /\ pc = "identify"
    /\ needed_files' = identify_files_needed(patch_content)
    /\ pc' = "read"
    /\ UNCHANGED <<commit0, changes, snapshot, idx, results,
                   target_paths_written, moved_sources, calls, fs,
                   patch_content, original_files, outcome, parsed_patch, result>>
    /\ UNCHANGED matchVars
    /\ UNCHANGED fuzz

\* Step 2: every needed file is read; the first that cannot be read makes
\* execute_apply_patch return Failure.
ReadFiles ==
    /\ pc = "read"
    /\ \E unreadable \in SUBSET needed_files :
         LET content(p) == read_file_content(fs, p, p \in unreadable) IN
         IF \E p \in needed_files : ~content(p).some
         THEN /\ outcome' = [outcome EXCEPT !.read = "failed"]
              /\ result' = ApplyPatchResult("Failure", None)
              /\ pc' = "returned"
              /\ UNCHANGED original_files
         ELSE /\ outcome' = [outcome EXCEPT !.read = "ok"]
              /\ original_files' = [p \in needed_files |-> content(p).val]
              /\ pc' = "parse"
              /\ UNCHANGED result
    /\ UNCHANGED <<commit0, changes, snapshot, idx, results,
                   target_paths_written, moved_sources, calls, fs,
                   patch_content, needed_files, parsed_patch>>
    /\ UNCHANGED matchVars
    /\ UNCHANGED fuzz

\* Step 4: parsed_patch, fuzz = text_to_patch(plan.patch_content,
\* original_files); DiffError is caught and Failure returned; a parser that
\* loops forever never returns.
ParsePatch ==
    /\ pc = "parse"
    /\ LET Returned(r) ==
               /\ outcome' = [outcome EXCEPT !.parse = r.kind]
               /\ fuzz' = IF r.kind = "ok" THEN Some(r.fuzz) ELSE None
               /\ IF r.kind = "hang"
                  THEN pc' = "hung" /\ UNCHANGED <<parsed_patch, result>>
                  ELSE IF ProceedsAfter(r.kind)
                  THEN /\ parsed_patch' = Some(r.patch)
                       /\ pc' = "compile"
                       /\ UNCHANGED result
                  ELSE /\ result' = ApplyPatchResult("Failure", None)
                       /\ pc' = "returned"
                       /\ UNCHANGED parsed_patch
       IN Returned(text_to_patch(patch_content, original_files))
    /\ UNCHANGED <<commit0, changes, snapshot, idx, results,
                   target_paths_written, moved_sources, calls, fs,
                   patch_content, needed_files, original_files>>
    /\ UNCHANGED matchVars

\* Steps 5 and 6: commit_actions = patch_to_commit(parsed_patch,
\* original_files), then apply_commit(commit_actions, ...) is entered;
\* DiffError is caught and Failure returned.
CompilePatch ==
    /\ pc = "compile"
    /\ LET Returned(r) ==
               /\ outcome' = [outcome EXCEPT !.compile = r.kind]
               /\ IF ProceedsAfter(r.kind)
                  THEN /\ commit0' = r.commit
                       /\ changes' = r.commit
                       /\ snapshot' = r.commit
                       /\ idx' = 1
                       /\ pc' = "deletes"
                       /\ UNCHANGED result
                  ELSE /\ result' = ApplyPatchResult("Failure", None)
                       /\ pc' = "returned"
                       /\ UNCHANGED <<commit0, changes, snapshot, idx>>
       IN Returned(patch_to_commit(parsed_patch.val, original_files))
    /\ UNCHANGED <<results, target_paths_written, moved_sources, calls, fs,
                   patch_content, needed_files, original_files, parsed_patch>>
    /\ UNCHANGED matchVars
    /\ UNCHANGED fuzz

\* Step 7: apply_commit has returned file_results; the overall status is
\* computed from it and the ApplyPatchResult returned.
Classify ==
    /\ pc = "return"
    /\ LET has_errors == \E p \in DOMAIN results : ContainsError(results[p])
           has_success == \E p \in DOMAIN results : ~ContainsError(results[p])
       IN result' = ApplyPatchResult(FinalStatus(has_errors, has_success),
                                     Some(results))
    /\ pc' = "returned"
    /\ UNCHANGED <<commit0, changes, snapshot, idx, results,
                   target_paths_written, moved_sources, calls, fs,
                   patch_content, needed_files, original_files, outcome,
                   parsed_patch>>
    /\ UNCHANGED matchVars
    /\ UNCHANGED fuzz

\* execute_apply_patch(plan) is entered.
InitExec ==
    /\ patch_content \in PatchTexts
    /\ fs \in DiskStates
    /\ pc = "identify"
    /\ needed_files = {}
    /\ original_files = EmptyMap
    /\ outcome = NoOutcome
    /\ parsed_patch = None
    /\ result = None
    /\ commit0 = <<>>
    /\ changes = <<>>
    /\ snapshot = <<>>
    /\ idx = 1
    /\ results = EmptyMap
    /\ target_paths_written = {}
    /\ moved_sources = {}
    /\ calls = <<>>
    /\ search = None
    /\ match = None
    /\ fuzz = None

NextExec ==
    \/ Identify \/ ReadFiles \/ ParsePatch \/ CompilePatch
    \/ ProcessDelete \/ ProcessUpdate \/ ProcessAdd \/ EndOfPass
    \/ Classify

SpecExec == InitExec /\ [][NextExec]_vars

\* ------------------------------------- text_to_patch and patch_to_commit
\* A caller that runs identify_files_needed(text), text_to_patch(text, orig)
\* and patch_to_commit(patch, orig) on a text and an original-content map of
\* its own choosing.

\* Lines the bodies of the directive patches are drawn from.
DirectiveLines == {
    UPDATE_FILE \o SP \o <<"a">>,
    UPDATE_FILE \o SP \o <<"b">>,
    UPDATE_FILE \o SP \o <<"a", " ">>,
    DELETE_FILE \o SP \o <<"a">>,
    DELETE_FILE \o SP \o <<"b">>,
    ADD_FILE \o SP \o <<"a">>,
    ADD_FILE \o SP \o <<"b">>,
    MOVE_TO \o SP \o <<"c">>,
    <<" ", "x">>,
    <<"+", "y">>,
    <<"-", "x">>}

\* text = "*** Begin Patch\n" + body + "*** End Patch\n"
PatchText(body) == JoinNL(<<BEGIN_PATCH>> \o body \o <<END_PATCH>>) \o <<"\n">>

DirectiveTexts ==
    {PatchText(body) :
        body \in UNION {[1..n -> DirectiveLines] : n \in 0..MaxBodyLines}}

\* The original-content maps of the directive patches: a and b hold one line
\* or are absent.
DirectiveOrigs ==
    {[p \in present |-> <<"x", "\n">>] : present \in SUBSET {<<"a">>, <<"b">>}}

\* needed = identify_files_needed(text)
CallIdentify ==
    /\ pc = "identify_files_needed"
    /\ needed_files' = identify_files_needed(patch_content)
    /\ pc' = "text_to_patch"
    /\ UNCHANGED <<commit0, changes, snapshot, idx, results,
                   target_paths_written, moved_sources, calls, fs,
                   patch_content, original_files, outcome, parsed_patch, result>>
    /\ UNCHANGED matchVars
    /\ UNCHANGED fuzz

\* patch, fuzz = text_to_patch(text, orig): it returns, raises DiffError or
\* never returns.
CallTextToPatch ==
    /\ pc = "text_to_patch"
    /\ LET Returned(r) ==
               /\ outcome' = [outcome EXCEPT !.parse = r.kind]
               /\ fuzz' = IF r.kind = "ok" THEN Some(r.fuzz) ELSE None
               /\ parsed_patch' = IF r.kind = "ok" THEN Some(r.patch) ELSE None
               /\ pc' = CASE r.kind = "ok" -> "patch_to_commit"
                          [] r.kind = "hang" -> "hung"
                          [] OTHER -> "raised"
       IN Returned(text_to_patch(patch_content, original_files))
    /\ UNCHANGED <<commit0, changes, snapshot, idx, results,
                   target_paths_written, moved_sources, calls, fs,
                   patch_content, needed_files, original_files, result>>
    /\ UNCHANGED matchVars

\* commit = patch_to_commit(patch, orig): it returns or raises DiffError.
CallPatchToCommit ==
    /\ pc = "patch_to_commit"
    /\ LET Returned(r) ==
               /\ outcome' = [outcome EXCEPT !.compile = r.kind]
               /\ commit0' = IF r.kind = "ok" THEN r.commit ELSE <<>>
               /\ pc' = IF r.kind = "ok" THEN "done" ELSE "raised"
       IN Returned(patch_to_commit(parsed_patch.val, original_files))
    /\ UNCHANGED <<changes, snapshot, idx, results,
                   target_paths_written, moved_sources, calls, fs,
                   patch_content, needed_files, original_files, parsed_patch,
                   result>>
    /\ UNCHANGED matchVars
    /\ UNCHANGED fuzz

\* The caller before its first call, for a text and a map.
Calling(text, orig) ==
    /\ patch_content = text
    /\ original_files = orig
    /\ pc = "identify_files_needed"
    /\ needed_files = {}
    /\ outcome = NoOutcome
    /\ parsed_patch = None
    /\ result = None
    /\ commit0 = <<>>
    /\ changes = <<>>
    /\ snapshot = <<>>
    /\ idx = 1
    /\ results = EmptyMap
    /\ target_paths_written = {}
    /\ moved_sources = {}
    /\ calls = <<>>
    /\ fs = EmptyMap
    /\ search = None
    /\ match = None
    /\ fuzz = None

InitDirectives ==
    \E text \in DirectiveTexts, orig \in DirectiveOrigs : Calling(text, orig)

NextPatch == CallIdentify \/ CallTextToPatch \/ CallPatchToCommit

SpecDirectives == InitDirectives /\ [][NextPatch]_vars

\* Lines the bodies of the top-level patches are drawn from: directives with
\* and without a path, and lines that are no directive.
TopLevelLines == {
    UPDATE_FILE \o SP \o <<"a">>,
    DELETE_FILE \o SP \o <<"a">>,
    ADD_FILE \o SP \o <<"b">>,
    UPDATE_FILE \o SP,
    DELETE_FILE \o SP,
    ADD_FILE \o SP,
    <<"j", "u", "n", "k">>,
    <<" ", "x">>,
    <<"+", "y">>}

TopLevelTexts ==
    {PatchText(body) :
        body \in UNION {[1..n -> TopLevelLines] : n \in 0..MaxBodyLines}}

InitTopLevel ==
    \E text \in TopLevelTexts, orig \in DirectiveOrigs : Calling(text, orig)

SpecTopLevel == InitTopLevel /\ [][NextPatch]_vars

\* Largest number of hunk lines of an Update, and of lines of its file.
MaxHunkLines == 3
MaxFileLines == 2

\* Lines the hunks of the Update patches are drawn from.
HunkLines == {
    <<" ", "x">>,
    <<" ", "x", " ">>,
    <<"-", "x">>,
    <<"-", "y">>,
    <<"+", "y">>,
    <<"+", "x">>,
    <<"-">>,
    ATAT,
    END_OF_FILE}

HunkBodies == UNION {[1..n -> HunkLines] : n \in 0..MaxHunkLines}

\* Lines of the file an Update patch is parsed against.
FileLines == {<<"x">>, <<"x", " ">>, <<"y">>}

\* The contents of that file: its lines joined by "\n", with or without a
\* newline at the end.
FileContents ==
    LET texts == {JoinNL(ls) :
                    ls \in UNION {[1..n -> FileLines] : n \in 0..MaxFileLines}}
    IN texts \cup {t \o <<"\n">> : t \in texts}

\* text = "*** Begin Patch\n*** Update File: a\n" + hunks + "*** End Patch\n"
UpdateText(body) == PatchText(<<UPDATE_FILE \o SP \o <<"a">>>> \o body)

InitHunks ==
    \E body \in HunkBodies, content \in FileContents :
        Calling(UpdateText(body), [p \in {<<"a">>} |-> content])

SpecHunks == InitHunks /\ [][NextPatch]_vars

\* Lines the sections of the Update patches are drawn from: hunk lines and
\* lines that begin or end a section, among them the zero-line sections.
SectionLines == {
    <<" ", "x">>,
    <<"-", "x">>,
    <<"+", "y">>,
    ATAT,
    ATAT \o <<"f", "o", "o">>,
    STARS,
    END_OF_FILE,
    END_OF_FILE \o <<" ", "e", "x", "t", "r", "a">>}

SectionBodies == UNION {[1..n -> SectionLines] : n \in 0..MaxHunkLines}

InitSections ==
    \E body \in SectionBodies, content \in FileContents :
        Calling(UpdateText(body), [p \in {<<"a">>} |-> content])

SpecSections == InitSections /\ [][NextPatch]_vars

\* A caller that runs patch_to_commit on a Patch of its own making: one
\* Update action for a, whose chunks need not come from the parser.
MaxChunks == 2

\* The chunks of that action: offsets from before the first line to after
\* the last.
ChunkPool ==
    {Chunk(i, del, <<<<"y">>>>) :
        i \in (-1)..(MaxFileLines + 1),
        del \in {<<>>, <<<<"x">>>>, <<<<"x">>, <<"y">>>>}}

ChunkLists == UNION {[1..n -> ChunkPool] : n \in 0..MaxChunks}

\* The contents of the file the action is compiled against.
CompiledContents ==
    LET texts == {JoinNL(ls) :
                    ls \in UNION {[1..n -> {<<"x">>, <<"y">>}] :
                                    n \in 0..MaxFileLines}}
    IN texts \cup {t \o <<"\n">> : t \in texts}

InitCompile ==
    \E chunks \in ChunkLists, content \in CompiledContents :
        /\ parsed_patch =
             Some(<<[path |-> <<"a">>,
                     action |-> PatchAction(UPDATE, None, chunks, None)]>>)
        /\ original_files = [p \in {<<"a">>} |-> content]
        /\ pc = "patch_to_commit"
        /\ patch_content = <<>>
        /\ needed_files = {}
        /\ outcome = NoOutcome
        /\ result = None
        /\ commit0 = <<>>
        /\ changes = <<>>
        /\ snapshot = <<>>
        /\ idx = 1
        /\ results = EmptyMap
        /\ target_paths_written = {}
        /\ moved_sources = {}
        /\ calls = <<>>
        /\ fs = EmptyMap
        /\ search = None
        /\ match = None
        /\ fuzz = None

SpecCompile == InitCompile /\ [][CallPatchToCommit]_vars

\* ------------------------------------- find_context_core and find_context
\* A caller that runs find_context_core(lines, context, start) and then
\* find_context(lines, context, start, eof) on arguments of its own choosing.

\* Largest number of file lines and of context lines of a search.
MaxMatchLines == 3
MaxContextLines == 2

\* Lines of a searched file and of a context.
MatchLines == {<<"x">>, <<"x", " ">>, <<" ", "x">>, <<"y">>}
ContextLines == {<<"x">>, <<"x", " ">>, <<"y">>}

Contexts == UNION {[1..n -> ContextLines] : n \in 0..MaxContextLines}

\* The searches: short files over all of MatchLines, and files long enough
\* for the window of the EOF-anchored search to start after start.
Searches ==
    {[lines |-> ls, context |-> c, start |-> st, eof |-> e] :
        ls \in UNION {[1..n -> MatchLines] : n \in 0..MaxMatchLines},
        c \in Contexts, st \in 0..MaxMatchLines, e \in BOOLEAN}
    \cup
    {[lines |-> ls, context |-> c, start |-> st, eof |-> e] :
        ls \in [1..(EOF_WINDOW + MaxContextLines) -> {<<"x">>, <<"y">>}],
        c \in Contexts, st \in 0..MaxContextLines, e \in BOOLEAN}

\* new_index, fuzz = find_context_core(lines, context, start)
CallFindContextCore ==
    /\ pc = "find_context_core"
    /\ match' = [match EXCEPT !.core =
                    Some(find_context_core(search.lines, search.context,
                                           search.start))]
    /\ pc' = "find_context"
    /\ UNCHANGED <<commit0, changes, snapshot, idx, results,
                   target_paths_written, moved_sources, calls, fs, execVars,
                   search, fuzz>>

\* new_index, fuzz = find_context(lines, context, start, eof)
CallFindContext ==
    /\ pc = "find_context"
    /\ match' = [match EXCEPT !.full =
                    Some(find_context(search.lines, search.context,
                                      search.start, search.eof))]
    /\ pc' = "done"
    /\ UNCHANGED <<commit0, changes, snapshot, idx, results,
                   target_paths_written, moved_sources, calls, fs, execVars,
                   search, fuzz>>

InitMatch ==
    /\ search \in {sr \in Searches : sr.start <= Len(sr.lines)}
    /\ match = [core |-> None, full |-> None]
    /\ fuzz = None
    /\ pc = "find_context_core"
    /\ patch_content = <<>>
    /\ original_files = EmptyMap
    /\ needed_files = {}
    /\ outcome = NoOutcome
    /\ parsed_patch = None
    /\ result = None
    /\ commit0 = <<>>
    /\ changes = <<>>
    /\ snapshot = <<>>
    /\ idx = 1
    /\ results = EmptyMap
    /\ target_paths_written = {}
    /\ moved_sources = {}
    /\ calls = <<>>
    /\ fs = EmptyMap

NextMatch == CallFindContextCore \/ CallFindContext

SpecMatch == InitMatch /\ [][NextMatch]_vars

\* ------------------------------------------------------------------- fuzz
\* Two callers: one runs find_context_core and find_context on a search,
\* the other the parser on an Update patch whose body may begin with a label.

\* Lines the bodies of the labelled patches are drawn from.
FuzzLines == {
    <<" ", "x">>,
    <<" ", "x", " ">>,
    <<" ", "y">>,
    <<"-", "x">>,
    <<"+", "y">>,
    ATAT \o SP \o <<"x">>,
    ATAT \o SP \o <<"x", " ">>}

FuzzBodies == UNION {[1..n -> FuzzLines] : n \in 0..MaxHunkLines}

InitFuzz ==
    \/ InitMatch
    \/ \E body \in FuzzBodies, content \in FileContents :
          Calling(UpdateText(body), [p \in {<<"a">>} |-> content])

SpecFuzz == InitFuzz /\ [][NextMatch \/ NextPatch]_vars

\* ------------------------------------------------------ peek_next_section
\* A caller that runs peek_next_section(lines, index) on patch lines and a
\* position of its own choosing.

\* Lines of the patches: context, deletion and insertion lines, a line
\* without prefix, an empty line, a "***" line that is no marker, and two
\* markers that end a section.
PeekLines == {
    <<" ", "x">>,
    <<"-", "x">>,
    <<"+", "y">>,
    <<"y">>,
    <<>>,
    STARS \o <<" ", "j", "u", "n", "k">>,
    ATAT,
    END_OF_FILE}

Peeks ==
    {[lines |-> ls, index |-> i] :
        ls \in UNION {[1..n -> PeekLines] : n \in 0..MaxHunkLines},
        i \in 0..MaxHunkLines}

\* next_ctx, chunks, end_idx, eof = peek_next_section(lines, index)
CallPeekNextSection ==
    /\ pc = "peek_next_section"
    /\ match' = Some(peek_next_section(search.lines, search.index))
    /\ pc' = "peeked"
    /\ UNCHANGED <<commit0, changes, snapshot, idx, results,
                   target_paths_written, moved_sources, calls, fs, execVars,
                   search, fuzz>>

InitPeek ==
    /\ search \in {sr \in Peeks : sr.index <= Len(sr.lines)}
    /\ match = None
    /\ fuzz = None
    /\ pc = "peek_next_section"
    /\ patch_content = <<>>
    /\ original_files = EmptyMap
    /\ needed_files = {}
    /\ outcome = NoOutcome
    /\ parsed_patch = None
    /\ result = None
    /\ commit0 = <<>>
    /\ changes = <<>>
    /\ snapshot = <<>>
    /\ idx = 1
    /\ results = EmptyMap
    /\ target_paths_written = {}
    /\ moved_sources = {}
    /\ calls = <<>>
    /\ fs = EmptyMap

SpecPeek == InitPeek /\ [][CallPeekNextSection]_vars

\* ------------------------------------------------- the "@@ <label>" search
\* The step of Parser._parse_update_file that looks a label up in the
\* original lines, for lines, a scan position and a label of the caller's
\* choosing.

\* The labels: the texts after "@@ " of the marker lines.
Labels == {<<"x">>, <<"x", " ">>, <<"y">>}

LabelSearches ==
    {[lines |-> ls, index |-> i, def_str |-> d] :
        ls \in UNION {[1..n -> MatchLines] : n \in 0..MaxMatchLines},
        i \in 0..MaxMatchLines, d \in Labels}

\* "if def_str.strip():" ... "if not found: raise DiffError"
CallLocateLabel ==
    /\ pc = "locate_label"
    /\ Strip(search.def_str) # <<>>
    /\ match' = Some(LocateLabel(search.lines, search.index, search.def_str))
    /\ pc' = "located"
    /\ UNCHANGED <<commit0, changes, snapshot, idx, results,
                   target_paths_written, moved_sources, calls, fs, execVars,
                   search, fuzz>>

InitLabel ==
    /\ search \in {sr \in LabelSearches : sr.index <= Len(sr.lines)}
    /\ match = None
    /\ fuzz = None
    /\ pc = "locate_label"
    /\ patch_content = <<>>
    /\ original_files = EmptyMap
    /\ needed_files = {}
    /\ outcome = NoOutcome
    /\ parsed_patch = None
    /\ result = None
    /\ commit0 = <<>>
    /\ changes = <<>>
    /\ snapshot = <<>>
    /\ idx = 1
    /\ results = EmptyMap
    /\ target_paths_written = {}
    /\ moved_sources = {}
    /\ calls = <<>>
    /\ fs = EmptyMap

SpecLabel == InitLabel /\ [][CallLocateLabel]_vars

\* ------------------------------------------------- claims about apply_commit
CallIdx == 1..Len(calls)

\* The change of the input commit stored under path p.
ChangeOf(p) == commit0[CHOOSE i \in 1..Len(commit0) : commit0[i].path = p]

PassRank(pass) ==
    CASE pass = "delete" -> 1 [] pass = "update" -> 2 [] pass = "add" -> 3

\* C1: the callbacks of one apply_commit run are issued one at a time in the
\* order delete pass, update pass, add pass: every remove issued for a Delete
\* precedes every write issued for an Update, and every write or remove
\* issued for an Update precedes every write issued for an Add.
C1_PassOrder ==
    /\ \A i, j \in CallIdx :
         i < j => PassRank(calls[i].pass) <= PassRank(calls[j].pass)
    /\ \A k \in CallIdx :
         /\ calls[k].pass = "delete" =>
              calls[k].fn = "remove" /\ ChangeOf(calls[k].owner).type = DELETE
         /\ calls[k].pass = "update" => ChangeOf(calls[k].owner).type = UPDATE
         /\ calls[k].pass = "add" =>
              calls[k].fn = "write" /\ ChangeOf(calls[k].owner).type = ADD

\* A finished run that removed for a Delete, wrote and removed for a move,
\* and wrote for an Add.
C1_Witness ==
    /\ pc = "return"
    /\ \E i, j, k, l \in CallIdx :
         /\ calls[i].pass = "delete"
         /\ calls[j].pass = "update" /\ calls[j].fn = "write"
         /\ calls[k].pass = "update" /\ calls[k].fn = "remove"
         /\ calls[l].pass = "add"

\* C2: no path is written twice within one run: no write callback is issued
\* to a path that an earlier write of the same run wrote successfully.
C2_NoPathWrittenTwice ==
    \A i, j \in CallIdx :
        (i < j /\ calls[i].fn = "write" /\ calls[i].outcome = "true"
               /\ calls[j].fn = "write")
        => calls[j].path # calls[i].path

\* C3: right after an Update with move target X was processed and reported
\* "Moved to X", X exists and holds the Update's new content (the source is
\* removed only when it is distinct from X).
C3_MoveTargetHoldsContent ==
    (pc = "updates" /\ idx > 1 /\ idx - 1 <= Len(snapshot)) =>
        LET ch == snapshot[idx - 1] IN
        (/\ ch.type = UPDATE
         /\ Truthy(ch.move_path)
         /\ ch.path \in DOMAIN results
         /\ results[ch.path] = MovedStatus(ch.move_path.val))
        => fs[ch.move_path.val] = ch.new_content

\* C4: for an Update with a move target, remove is called on the source only
\* right after the write to the target returned true; when that write
\* returns false or raises, remove is not called for the source in the
\* update pass and the status of the path is an error.
C4_RemoveOnlyAfterWrite ==
    /\ \A k \in CallIdx :
         (calls[k].fn = "remove" /\ calls[k].pass = "update") =>
            /\ k > 1
            /\ calls[k].path = calls[k].owner
            /\ calls[k - 1] = Call("write", TargetOf(ChangeOf(calls[k].owner)),
                                   ChangeOf(calls[k].owner).new_content,
                                   "true", "update", calls[k].owner)
    /\ \A k \in CallIdx :
         (/\ calls[k].fn = "write" /\ calls[k].pass = "update"
          /\ calls[k].outcome # "true"
          /\ Truthy(ChangeOf(calls[k].owner).move_path))
         => /\ \A j \in CallIdx :
                 ~(calls[j].fn = "remove" /\ calls[j].pass = "update"
                   /\ calls[j].path = calls[k].owner)
            /\ calls[k].owner \in DOMAIN results
            /\ IsErrorStatus(results[calls[k].owner])

\* A finished run in which one move wrote its target and removed its source
\* and the write of another move failed.
C4_Witness ==
    /\ pc = "return"
    /\ \E j, k \in CallIdx :
         /\ calls[j].fn = "remove" /\ calls[j].pass = "update"
         /\ calls[k].fn = "write" /\ calls[k].pass = "update"
         /\ calls[k].outcome # "true"
         /\ Truthy(ChangeOf(calls[k].owner).move_path)

\* C5: no write is issued to a path that a Delete of the same run removed.
C5_NoWriteToDeletedPath ==
    \A i, j \in CallIdx :
        (/\ i < j
         /\ calls[i].fn = "remove" /\ calls[i].pass = "delete"
         /\ calls[i].outcome = "true"
         /\ calls[j].fn = "write")
        => calls[j].path # calls[i].path

\* C6: an Add whose path was successfully written as the move target of an
\* Update of the same run gets no write callback; once the run has returned
\* its status is an error and the path still holds the moved content.
C6_AddOverMoveTargetRejected ==
    \A i \in 1..Len(commit0), k \in CallIdx :
        (/\ commit0[i].type = ADD
         /\ calls[k].fn = "write" /\ calls[k].pass = "update"
         /\ calls[k].outcome = "true"
         /\ calls[k].path = commit0[i].path)
        => /\ \A j \in CallIdx : calls[j].owner # commit0[i].path
           /\ pc = "return" =>
                /\ commit0[i].path \in DOMAIN results
                /\ IsErrorStatus(results[commit0[i].path])
                /\ fs[commit0[i].path] = calls[k].content

\* A finished run with an Add (carrying content) over a path that a move
\* wrote successfully.
C6_Witness ==
    /\ pc = "return"
    /\ \E i \in 1..Len(commit0), k \in CallIdx :
         /\ commit0[i].type = ADD
         /\ commit0[i].new_content.some
         /\ calls[k].fn = "write" /\ calls[k].pass = "update"
         /\ calls[k].outcome = "true"
         /\ calls[k].path = commit0[i].path

\* C7: apply_commit never raises and always goes on to return; once it has
\* returned, every change of the commit either had its callback attempted or
\* was rejected for a reason that is not a failure (it carries no content,
\* or its target was successfully written by another change).
C7_FailureIsolated ==
    /\ pc \in {"deletes", "updates", "adds", "return"}
    /\ pc = "return" \/ ENABLED NextApply
    /\ pc = "return" =>
         \A i \in 1..Len(commit0) :
            \/ \E k \in CallIdx : calls[k].owner = commit0[i].path
            \/ ~commit0[i].new_content.some
            \/ \E k \in CallIdx :
                 /\ calls[k].fn = "write" /\ calls[k].outcome = "true"
                 /\ calls[k].path = TargetOf(commit0[i])
                 /\ calls[k].owner # commit0[i].path

\* A finished run in which a callback raised, a later one returned false,
\* and a callback for yet another change was attempted after both.
C7_Witness ==
    /\ pc = "return"
    /\ \E i, j, k \in CallIdx :
         /\ i < j /\ j < k
         /\ calls[i].outcome = "raise"
         /\ calls[j].outcome = "false"
         /\ calls[k].owner \notin {calls[i].owner, calls[j].owner}

\* C8: every path whose write or remove callback returned false or raised
\* has an error status.
C8_FailuresAreErrors ==
    \A k \in CallIdx :
        calls[k].outcome # "true" =>
            /\ calls[k].owner \in DOMAIN results
            /\ IsErrorStatus(results[calls[k].owner])

\* The statuses of the specification for the change ch.
AllowedStatus(s, ch) ==
    \/ s \in {Status("Added", <<>>), Status("Updated", <<>>),
              Status("Deleted", <<>>),
              Status("Deleted (or already missing)", <<>>)}
    \/ ch.move_path.some /\ s = Status("Moved to ", ch.move_path.val)
    \/ IsErrorStatus(s)

C10_FailureBeforeAnyMutation ==
    /\ calls # <<>> =>
         outcome = [read |-> "ok", parse |-> "ok", compile |-> "ok"]
    /\ (\/ outcome.read = "failed"
        \/ outcome.parse = "DiffError"
        \/ outcome.compile = "DiffError")
       => /\ pc = "returned"
          /\ result = ApplyPatchResult("Failure", None)
          /\ calls = <<>>
          /\ changes = <<>>
          /\ outcome.parse = "DiffError" => parsed_patch = None

\* execute_apply_patch has returned after text_to_patch raised DiffError
\* with a first file action already parsed.
C10_Witness ==
    /\ pc = "returned"
    /\ outcome.parse = "DiffError"
    /\ original_files # EmptyMap
    /\ text_to_patch(patch_content, original_files).patch # <<>>

\* ------------------------------ claims about text_to_patch and patch_to_commit
\* The prefixes of the three file directives.
DirectivePrefixes == {UPDATE_FILE \o SP, DELETE_FILE \o SP, ADD_FILE \o SP}

IsDirective(line) == StartsWithAny(line, DirectivePrefixes)

\* The path a directive line names.
NamedPath(line) ==
    DropFirst(line, Len(CHOOSE pre \in DirectivePrefixes : StartsWith(line, pre)))

\* Two directive lines of the text name one path.
NamesPathTwice(text) ==
    LET lines == SplitLines(text) IN
    \E i, j \in 1..Len(lines) :
        /\ i < j
        /\ IsDirective(lines[i])
        /\ IsDirective(lines[j])
        /\ NamedPath(lines[i]) # <<>>
        /\ NamedPath(lines[i]) = NamedPath(lines[j])

\* C11: once text_to_patch has been called on a text in which two
\* directives (of any kinds) name one path, it has raised DiffError; a Patch
\* it returns holds at most one action per path.
C11_OneActionPerPath ==
    /\ (outcome.parse # "none" /\ NamesPathTwice(patch_content))
       => outcome.parse = "DiffError" /\ parsed_patch = None
    /\ parsed_patch.some =>
         \A i, j \in 1..Len(parsed_patch.val) :
            parsed_patch.val[i].path = parsed_patch.val[j].path => i = j

\* text_to_patch has raised on "Delete File: b" followed by "Update File: b"
\* with b (and a) in the map: nothing but the duplicate is wrong.
C11_Witness ==
    /\ pc = "raised"
    /\ outcome.parse = "DiffError"
    /\ DOMAIN original_files = {<<"a">>, <<"b">>}
    /\ patch_content = PatchText(<<DELETE_FILE \o SP \o <<"b">>,
                                   UPDATE_FILE \o SP \o <<"b">>>>)

\* The paths that directive lines with the given prefix name in the text.
PathsNamedBy(text, prefix) ==
    LET lines == SplitLines(text) IN
    {DropFirst(lines[i], Len(prefix)) :
        i \in {j \in 1..Len(lines) :
                 StartsWith(lines[j], prefix) /\ Len(lines[j]) > Len(prefix)}}

\* C12: once text_to_patch has been called on a text with an Update or
\* Delete directive for a path absent from the original-content map, or an
\* Add directive for a path present in it, it has raised DiffError; a Patch
\* it returns has Update and Delete actions only for paths in the map and
\* Add actions only for paths not in it.
C12_PathsAgreeWithMap ==
    /\ (/\ outcome.parse # "none"
        /\ \/ \E p \in PathsNamedBy(patch_content, UPDATE_FILE \o SP) :
                p \notin DOMAIN original_files
           \/ \E p \in PathsNamedBy(patch_content, DELETE_FILE \o SP) :
                p \notin DOMAIN original_files
           \/ \E p \in PathsNamedBy(patch_content, ADD_FILE \o SP) :
                p \in DOMAIN original_files)
       => outcome.parse = "DiffError" /\ parsed_patch = None
    /\ parsed_patch.some =>
         \A i \in 1..Len(parsed_patch.val) :
            LET item == parsed_patch.val[i] IN
            IF item.action.type = ADD
            THEN item.path \notin DOMAIN original_files
            ELSE item.path \in DOMAIN original_files

\* text_to_patch has raised on a lone "Add File: b" with b in the map.
C12_Witness ==
    /\ pc = "raised"
    /\ outcome.parse = "DiffError"
    /\ DOMAIN original_files = {<<"b">>}
    /\ patch_content = PatchText(<<ADD_FILE \o SP \o <<"b">>>>)

\* A line of the text is an insertion or a deletion line.
HasChangeLine(text) ==
    LET lines == SplitLines(text) IN
    \E i \in 1..Len(lines) : StartsWithAny(lines[i], {<<"+">>, <<"-">>})

\* C13: when an Update patch without '+' and '-' lines has been parsed and
\* compiled, the new content of its file is the original content, character
\* for character.
C13_ContextOnlyRoundTrip ==
    (pc = "done" /\ ~HasChangeLine(patch_content))
    => /\ Len(commit0) = 1
       /\ commit0[1].type = UPDATE
       /\ commit0[1].new_content = Some(original_files[commit0[1].path])

\* A context-only patch matched a two-line file without final newline
\* through a line that differs in trailing whitespace, and was compiled.
C13_Witness ==
    /\ pc = "done"
    /\ ~HasChangeLine(patch_content)
    /\ patch_content = UpdateText(<<<<" ", "x">>, <<" ", "x", " ">>>>)
    /\ original_files[<<"a">>] = <<"x", " ", "\n", "x">>

\* A line of the text is an insertion line.
HasInsertionLine(text) ==
    LET lines == SplitLines(text) IN
    \E i \in 1..Len(lines) : StartsWith(lines[i], <<"+">>)

\* C14: when an Update patch with an insertion has been parsed and compiled
\* against content C, giving C', text_to_patch of the same text against C'
\* raises DiffError.
C14_ReapplyingInsertionFails ==
    (pc = "done" /\ HasInsertionLine(patch_content))
    => text_to_patch(patch_content,
                     [p \in {commit0[1].path} |-> commit0[1].new_content.val]).kind
       = "DiffError"

\* seqs[1] \o seqs[2] \o ...
RECURSIVE Concat(_)
Concat(seqs) == IF seqs = <<>> THEN <<>> ELSE Head(seqs) \o Concat(Tail(seqs))

\* The original lines with the deleted lines of every chunk removed and the
\* inserted lines of every chunk placed at its offset: position by position,
\* what is inserted there, then the original line unless a chunk deletes it.
SplicedLines(orig_lines, chunks) ==
    LET InsertedAt(i) ==
            Concat([k \in 1..Len(chunks) |->
                      IF chunks[k].orig_index = i
                      THEN chunks[k].ins_lines ELSE <<>>])
        Deleted(i) ==
            \E k \in 1..Len(chunks) :
                /\ chunks[k].orig_index <= i
                /\ i < chunks[k].orig_index + Len(chunks[k].del_lines)
        Kept(i) ==
            IF i < Len(orig_lines) /\ ~Deleted(i)
            THEN <<orig_lines[i + 1]>> ELSE <<>>
    IN Concat([j \in 1..(Len(orig_lines) + 1) |->
                 InsertedAt(j - 1) \o Kept(j - 1)])

\* The spliced lines of the compiled Update, joined by newlines.
SplicedContent ==
    JoinNL(SplicedLines(SplitNL(original_files[commit0[1].path]),
                        parsed_patch.val[1].action.chunks))

\* C15 as stated: the new content of a compiled Update is the spliced lines
\* joined by newlines and nothing else.
C15_ExactlySpliced ==
    pc = "done" => commit0[1].new_content = Some(SplicedContent)

\* C15 amended: the new content of a compiled Update is the spliced lines
\* joined by newlines, followed by one more newline when that text is not
\* empty, does not end with a newline, and the original content ended with a
\* newline or was empty.
C15_SplicedWithFinalNewline ==
    pc = "done" =>
        LET text == original_files[commit0[1].path]
            joined == SplicedContent
            restores ==
                /\ joined # <<>>
                /\ joined[Len(joined)] # "\n"
                /\ text = <<>> \/ text[Len(text)] = "\n"
        IN commit0[1].new_content =
             Some(IF restores THEN joined \o <<"\n">> ELSE joined)

\* An Update with a fuzzily matched deletion, and an insertion, has been
\* compiled against a two-line file.
C15_Witness ==
    /\ pc = "done"
    /\ patch_content = UpdateText(<<<<"-", "x">>, <<"+", "y">>, <<" ", "x">>>>)
    /\ original_files[<<"a">>] = <<"x", " ", "\n", "x", "\n">>

\* The chunks of the compiled Update and the lines of its original content.
CompiledChunks == parsed_patch.val[1].action.chunks
CompiledAgainst == SplitNL(original_files[commit0[1].path])

\* The original lines a chunk deletes.
DeletedSection(c) ==
    PySlice(CompiledAgainst, c.orig_index, c.orig_index + Len(c.del_lines))

\* s without the white space at both ends.
Trimmed(s) ==
    LET inner == {i \in 1..Len(s) : s[i] \notin Whitespace} IN
    IF inner = {} THEN <<>>
    ELSE SubSeq(s, CHOOSE i \in inner : \A j \in inner : i <= j,
                   CHOOSE i \in inner : \A j \in inner : j <= i)

\* C16 as stated: a Commit is produced only when the '-' lines of every
\* chunk equal the original lines at the chunk's offset character for
\* character.
C16_DeletedLinesExact ==
    pc = "done" =>
        \A k \in 1..Len(CompiledChunks) :
            CompiledChunks[k].del_lines = DeletedSection(CompiledChunks[k])

\* C16 amended: a Commit is produced only when the '-' lines of every chunk
\* equal the original lines at the chunk's offset once the white space at
\* both ends of each line is disregarded.
C16_DeletedLinesMatchTrimmed ==
    pc = "done" =>
        \A k \in 1..Len(CompiledChunks) :
            LET del == CompiledChunks[k].del_lines
                sec == DeletedSection(CompiledChunks[k])
            IN /\ Len(del) = Len(sec)
               /\ \A i \in 1..Len(del) : Trimmed(del[i]) = Trimmed(sec[i])

\* "-x" has been compiled against a file whose only line is "x ".
C16_Witness ==
    /\ pc = "done"
    /\ patch_content = UpdateText(<<<<"-", "x">>>>)
    /\ original_files[<<"a">>] = <<"x", " ">>

\* ------------------------------------------- claims about the context search
\* s without the white space at its end.
RightTrimmed(s) ==
    LET inner == {i \in 1..Len(s) : s[i] \notin Whitespace} IN
    IF inner = {} THEN <<>>
    ELSE SubSeq(s, 1, CHOOSE i \in inner : \A j \in inner : j <= i)

\* The context of the search lies at offset i of its lines under tier 0
\* (equal), 1 (equal once right-trimmed) or 2 (equal once trimmed).
MatchesAt(i, tier) ==
    /\ i + Len(search.context) <= Len(search.lines)
    /\ \A k \in 1..Len(search.context) :
         LET l == search.lines[i + k]
             c == search.context[k]
         IN CASE tier = 0 -> l = c
              [] tier = 1 -> RightTrimmed(l) = RightTrimmed(c)
              [] tier = 2 -> Trimmed(l) = Trimmed(c)

\* The offsets at or after from where the context matches under the tier.
MatchOffsets(from, tier) ==
    {i \in from..Len(search.lines) : MatchesAt(i, tier)}

\* The lowest tier with a match at or after from, or 3.
LowestTier(from) ==
    IF MatchOffsets(from, 0) # {} THEN 0
    ELSE IF MatchOffsets(from, 1) # {} THEN 1
    ELSE IF MatchOffsets(from, 2) # {} THEN 2
    ELSE 3

\* C17: find_context_core returns start and fuzz 0 for an empty context;
\* otherwise the lowest offset >= start of the lowest tier that matches
\* anywhere at or after start, with fuzz 0, 1 or 100 for the tiers equal,
\* right-trimmed and trimmed; and index -1 when no tier matches.
C17_LowestTierLowestOffset ==
    match.core.some =>
        LET r == match.core.val
            tier == LowestTier(search.start)
        IN
        IF search.context = <<>> THEN r = [index |-> search.start, fuzz |-> 0]
        ELSE IF tier = 3 THEN r.index = -1
        ELSE /\ r.index \in MatchOffsets(search.start, tier)
             /\ \A i \in MatchOffsets(search.start, tier) : r.index <= i
             /\ r.fuzz = CASE tier = 0 -> 0 [] tier = 1 -> 1 [] tier = 2 -> 100

\* find_context_core has returned the first of two trimmed-tier matches, a
\* right-trimmed match before start being out of reach.
C17_Witness ==
    /\ match.core.some
    /\ search.lines = <<<<"x">>, <<" ", "x">>, <<" ", "x">>>>
    /\ search.context = <<<<"x", " ">>>>
    /\ search.start = 1
    /\ match.core.val = [index |-> 1, fuzz |-> 100]

\* The fuzz of a tier.
TierFuzz(tier) == CASE tier = 0 -> 0 [] tier = 1 -> 1 [] tier = 2 -> 100

\* C18: with the eof flag set, find_context reports index -1 exactly when
\* the context matches nowhere at or after start; a match it returns with
\* fuzz below 10000 ends exactly at len(lines) and carries the fuzz of a
\* tier under which it matches; any other match it returns is the lowest
\* offset of the lowest matching tier at or after start, with 10000 added to
\* that tier's fuzz.
C18_EofAnchoredSearch ==
    (match.full.some /\ search.eof) =>
        LET r == match.full.val
            n == Len(search.context)
            tier == LowestTier(search.start)
            nowhere == search.context # <<>> /\ tier = 3
        IN
        /\ r.index = -1 <=> nowhere
        /\ (r.index # -1 /\ r.fuzz < 10000) =>
             /\ r.index + n = Len(search.lines)
             /\ r.index >= search.start
             /\ \E t \in 0..2 : MatchesAt(r.index, t) /\ r.fuzz = TierFuzz(t)
        /\ (r.index # -1 /\ r.fuzz >= 10000) =>
             /\ r.index + n # Len(search.lines)
             /\ IF search.context = <<>>
                THEN r = [index |-> search.start, fuzz |-> 10000]
                ELSE /\ r.index \in MatchOffsets(search.start, tier)
                     /\ \A i \in MatchOffsets(search.start, tier) : r.index <= i
                     /\ r.fuzz = TierFuzz(tier) + 10000

\* With the eof flag set, find_context has returned the match at the end of
\* a file so long that the window of the anchored search skips an earlier
\* match.
C18_Witness ==
    /\ match.full.some
    /\ search.eof
    /\ Len(search.lines) = EOF_WINDOW + MaxContextLines
    /\ search.context = <<<<"x">>>>
    /\ search.start = 0
    /\ search.lines[1] = <<"x">>
    /\ match.full.val = [index |-> Len(search.lines) - 1, fuzz |-> 0]

\* ------------------------------------------ claims about identify_files_needed
\* C19: the paths identify_files_needed returns for a text are exactly the
\* paths that the Update and Delete directives of the text name, which are
\* the paths Parser.parse looks up in the original-content map.
C19_NeededIsWhatParserLooksUp ==
    pc # "identify_files_needed" =>
        needed_files = PathsNamedBy(patch_content, UPDATE_FILE \o SP)
                       \cup PathsNamedBy(patch_content, DELETE_FILE \o SP)

\* ------------------------------------ claims about the overall status
\* C20: the status execute_apply_patch returns with a status map is
\* "Success" when no entry of the map is an "Error: ..." status of
\* apply_commit, "Partial Success" when some entry is one and some entry is
\* not, and "Failure" when every entry is one.
C20_StatusFromErrorEntries ==
    (pc = "returned" /\ result.val.file_results.some) =>
        LET fr == result.val.file_results.val
            errors == \E p \in DOMAIN fr : IsErrorStatus(fr[p])
            successes == \E p \in DOMAIN fr : ~IsErrorStatus(fr[p])
        IN result.val.status =
             IF ~errors THEN "Success"
             ELSE IF successes THEN "Partial Success"
             ELSE "Failure"

\* ------------------------------------------------ claims about the parser
\* The lines of a framed text between its Begin Patch and End Patch lines.
BodyOf(text) ==
    LET lines == SplitLines(text) IN SubSeq(lines, 2, Len(lines) - 1)

\* The lines that follow line i of a body up to the next file directive or
\* End Patch line, or to the end of the body.
BodyAfter(body, i) ==
    LET stops == {j \in (i + 1)..Len(body) : StartsWithAny(body[j], FileBreaks)}
    IN SubSeq(body, i + 1, IF stops = {} THEN Len(body) ELSE MinOf(stops) - 1)

\* The positions of the Add directives of a body.
AddDirectives(body) ==
    {i \in 1..Len(body) : StartsWith(body[i], ADD_FILE \o SP)}

\* Every line starts with '+'.
AllPlus(lines) == \A k \in 1..Len(lines) : StartsWith(lines[k], <<"+">>)

C22_ParserTerminates ==
    pc \notin {"identify_files_needed", "text_to_patch"} =>
        outcome.parse \in {"ok", "DiffError"}

\* C23: in a Patch text_to_patch returns, the chunks of every Update action,
\* in the order they were appended, start at or after 0, end at or before
\* the number of lines of the original content, and each starts at or after
\* the end of the lines the chunk before it deletes.
C23_ChunksOrderedInRange ==
    parsed_patch.some =>
        \A k \in 1..Len(parsed_patch.val) :
            parsed_patch.val[k].action.type = UPDATE =>
                LET chunks == parsed_patch.val[k].action.chunks
                    n == Len(SplitNL(original_files[parsed_patch.val[k].path]))
                IN \A i \in 1..Len(chunks) :
                    /\ 0 <= chunks[i].orig_index
                    /\ chunks[i].orig_index + Len(chunks[i].del_lines) <= n
                    /\ i < Len(chunks) =>
                         chunks[i + 1].orig_index >=
                            chunks[i].orig_index + Len(chunks[i].del_lines)

\* text_to_patch has returned two chunks from two sections: the deletion of
\* the only line of the file, matched at the end of the file, and an
\* insertion after it.
C23_Witness ==
    /\ parsed_patch.some
    /\ patch_content = UpdateText(<<<<"-", "x">>, END_OF_FILE, <<"+", "y">>>>)
    /\ original_files[<<"a">>] = <<"x">>
    /\ parsed_patch.val[1].action.chunks =
         <<Chunk(0, <<<<"x">>>>, <<>>), Chunk(1, <<>>, <<<<"y">>>>)>>

\* ------------------------------------------------ claims about the compiler
\* C24: patch_to_commit does not raise DiffError on a Patch that
\* text_to_patch returned for the same original-content map; in such a Patch
\* the deleted lines of every chunk are the original lines at the chunk's
\* offset, exactly or once each line is trimmed.
C24_CompileNeverRaises ==
    /\ outcome.parse = "ok" => outcome.compile # "DiffError"
    /\ parsed_patch.some =>
         \A k \in 1..Len(parsed_patch.val) :
            parsed_patch.val[k].action.type = UPDATE =>
                LET chunks == parsed_patch.val[k].action.chunks
                    lines == SplitNL(original_files[parsed_patch.val[k].path])
                    Section(c) ==
                        PySlice(lines, c.orig_index, c.orig_index + Len(c.del_lines))
                IN \A i \in 1..Len(chunks) :
                    \/ Section(chunks[i]) = chunks[i].del_lines
                    \/ /\ Len(Section(chunks[i])) = Len(chunks[i].del_lines)
                       /\ \A n \in 1..Len(chunks[i].del_lines) :
                            Trimmed(Section(chunks[i])[n]) =
                                Trimmed(chunks[i].del_lines[n])

\* A Patch whose section matched only after right-trimming, and whose
\* deleted line differs from the original line in white space, has been
\* compiled.
C24_Witness ==
    /\ pc = "done"
    /\ outcome.compile = "ok"
    /\ patch_content = UpdateText(<<<<"-", "x">>, <<"+", "y">>, <<" ", "x", " ">>>>)
    /\ original_files[<<"a">>] = <<"x", " ", "\n", "x">>

\* The chunks handed to the compiler and the lines they are applied to.
GivenChunks == parsed_patch.val[1].action.chunks
GivenLines == SplitNL(original_files[parsed_patch.val[1].path])

\* Chunk i comes before chunk j once the chunks are sorted by orig_index,
\* chunks of one orig_index keeping their order.
SortsBefore(i, j) ==
    \/ GivenChunks[i].orig_index < GivenChunks[j].orig_index
    \/ GivenChunks[i].orig_index = GivenChunks[j].orig_index /\ i < j

\* Some chunk starts before the end of the deleted range of a chunk sorted
\* before it.
ChunksOverlap ==
    \E i, j \in 1..Len(GivenChunks) :
        /\ i # j
        /\ SortsBefore(i, j)
        /\ GivenChunks[j].orig_index <
              GivenChunks[i].orig_index + Len(GivenChunks[i].del_lines)

\* Some chunk starts before line 0 or deletes past the last line.
ChunksOutOfRange ==
    \E i \in 1..Len(GivenChunks) :
        \/ GivenChunks[i].orig_index < 0
        \/ GivenChunks[i].orig_index + Len(GivenChunks[i].del_lines)
              > Len(GivenLines)

\* C25: compiling an Update whose chunks overlap once sorted by orig_index,
\* or hold a chunk that starts before line 0 or deletes past the last
\* original line, raises DiffError and yields no content.
C25_BadChunksRejected ==
    (pc \in {"done", "raised"} /\ (ChunksOverlap \/ ChunksOutOfRange)) =>
        /\ pc = "raised"
        /\ outcome.compile = "DiffError"
        /\ commit0 = <<>>

\* Compilation has raised on two chunks that are in range and whose deleted
\* lines are those of the file, the second starting inside the range the
\* first deletes.
C25_Witness ==
    /\ pc = "raised"
    /\ original_files[<<"a">>] = <<"x", "\n", "y">>
    /\ GivenChunks = <<Chunk(1, <<>>, <<<<"y">>>>),
                       Chunk(0, <<<<"x">>, <<"y">>>>, <<<<"y">>>>)>>

\* ------------------------------------------------ claims about the labels
\* The positions at or after the scan position whose line is the label, and
\* those whose line is the label once both are trimmed.
LabelHits == {i \in search.index..(Len(search.lines) - 1) :
                search.lines[i + 1] = search.def_str}
LabelHitsTrimmed == {i \in search.index..(Len(search.lines) - 1) :
                       Trimmed(search.lines[i + 1]) = Trimmed(search.def_str)}

\* C26: the label search moves the scan position to just after the first
\* line at or after it that equals the label, adding no fuzz; failing that,
\* to just after the first such line that equals the label once both are
\* trimmed, adding fuzz 1; it raises DiffError only when no line at or after
\* the scan position matches the label either way.
C26_LabelLocatedInRemainingLines ==
    pc = "located" =>
        IF LabelHits # {}
        THEN match.val = [found |-> TRUE, index |-> MinOf(LabelHits) + 1,
                          fuzz |-> 0]
        ELSE IF LabelHitsTrimmed # {}
        THEN match.val = [found |-> TRUE,
                          index |-> MinOf(LabelHitsTrimmed) + 1, fuzz |-> 1]
        ELSE ~match.val.found

\* ---------------------------------------------- claims about the top level
\* The line is an Update, Delete or Add directive with a path.
WellFormedDirective(line) ==
    \E pre \in DirectivePrefixes : StartsWith(line, pre) /\ Len(line) > Len(pre)

\* Positions of a body that the parser can only meet at its top level: the
\* first line, every line that ends the body of a directive, and the line
\* after a Delete directive.
AtTopLevel(body) ==
    {i \in 1..Len(body) :
        \/ i = 1
        \/ StartsWithAny(body[i], FileBreaks)
        \/ /\ StartsWith(body[i - 1], DELETE_FILE \o SP)
           /\ WellFormedDirective(body[i - 1])}

\* C27: once text_to_patch has been called on a text with a top-level line
\* that is neither an Update, Delete or Add directive with a path nor the
\* End Patch line, it has raised DiffError.
C27_TopLevelLineRejected ==
    (/\ outcome.parse # "none"
     /\ \E i \in AtTopLevel(BodyOf(patch_content)) :
            ~WellFormedDirective(BodyOf(patch_content)[i]))
    => outcome.parse = "DiffError"

\* ---------------------------------------- claims about the Hunk Extractor
\* The line ends a section.
EndsSection(line) == StartsWithAny(line, SectionBreaks) \/ line = STARS

\* The lines of the section at the position of the search: those from the
\* position up to the first line that ends a section.
PeekedSection ==
    LET stops == {i \in (search.index + 1)..Len(search.lines) :
                    EndsSection(search.lines[i])}
    IN SubSeq(search.lines, search.index + 1,
              IF stops = {} THEN Len(search.lines) ELSE MinOf(stops) - 1)

\* The context block, the inserted lines and the deleted lines of a section
\* whose lines are classified by their first character.
ContextOf(section) ==
    Concat([k \in 1..Len(section) |->
        IF StartsWith(section[k], <<"+">>) THEN <<>>
        ELSE IF StartsWithAny(section[k], {<<"-">>, <<" ">>})
        THEN <<Tail(section[k])>>
        ELSE <<section[k]>>])

InsertedOf(section) ==
    Concat([k \in 1..Len(section) |->
        IF StartsWith(section[k], <<"+">>) THEN <<Tail(section[k])>> ELSE <<>>])

DeletedOf(section) ==
    Concat([k \in 1..Len(section) |->
        IF StartsWith(section[k], <<"-">>) THEN <<Tail(section[k])>> ELSE <<>>])

\* peek_next_section has returned the section classified by first
\* characters: '+' lines inserted, '-' lines deleted and part of the
\* context, every other line context.
PeekedAsClassified ==
    /\ match.val.kind = "ok"
    /\ match.val.context = ContextOf(PeekedSection)
    /\ Concat([k \in 1..Len(match.val.chunks) |-> match.val.chunks[k].ins_lines])
         = InsertedOf(PeekedSection)
    /\ Concat([k \in 1..Len(match.val.chunks) |-> match.val.chunks[k].del_lines])
         = DeletedOf(PeekedSection)
    /\ match.val.index >= search.index + Len(PeekedSection)

\* C28 as stated: every section of at least one line is returned classified
\* by first characters, no line of it making peek_next_section raise.
C28_EveryOtherLineIsContext ==
    (pc = "peeked" /\ PeekedSection # <<>>) => PeekedAsClassified

\* C28 amended: a section with a line that starts with "***" makes
\* peek_next_section raise DiffError; every other section of at least one
\* line is returned classified by first characters.
C28_ClassifiedUnlessStars ==
    (pc = "peeked" /\ PeekedSection # <<>>) =>
        IF \E k \in 1..Len(PeekedSection) : StartsWith(PeekedSection[k], STARS)
        THEN match.val.kind = "DiffError"
        ELSE PeekedAsClassified

\* peek_next_section has returned a section of a line without prefix, a
\* deletion and an insertion.
C28_Witness ==
    /\ pc = "peeked"
    /\ search = [lines |-> <<<<"y">>, <<"-", "x">>, <<"+", "y">>>>, index |-> 0]
    /\ match.val.context = <<<<"y">>, <<"x">>>>
    /\ match.val.chunks = <<Chunk(1, <<<<"x">>>>, <<<<"y">>>>)>>

\* ------------------------------------------- claims about the final newline
\* The original content and the new content of the compiled Update.
OriginalContent == original_files[commit0[1].path]
NewContent == commit0[1].new_content.val

\* The text ends with a newline.
HasFinalNewline(text) == text # <<>> /\ text[Len(text)] = "\n"

FuzzBody == Tail(BodyOf(patch_content))
FuzzFile == SplitNL(original_files[<<"a">>])
IsLabelLine(line) == StartsWith(line, ATAT \o SP)
Labelled == FuzzBody # <<>> /\ IsLabelLine(FuzzBody[1])

\* The label, and the lines of the one section after it, as long as no
\* further label follows.
LabelText == DropFirst(FuzzBody[1], Len(ATAT \o SP))
OneSection == IF Labelled THEN Tail(FuzzBody) ELSE FuzzBody
LabelFirstOnly == \A k \in 1..Len(OneSection) : ~IsLabelLine(OneSection[k])

\* Where the label lies in the file, as it is and once trimmed.
LabelAt == {i \in 0..(Len(FuzzFile) - 1) : FuzzFile[i + 1] = LabelText}
LabelAtTrimmed ==
    {i \in 0..(Len(FuzzFile) - 1) : Trimmed(FuzzFile[i + 1]) = Trimmed(LabelText)}

\* The position the search for the section starts at.
SectionStart ==
    IF ~Labelled THEN 0
    ELSE IF LabelAt # {} THEN MinOf(LabelAt) + 1
    ELSE MinOf(LabelAtTrimmed) + 1

\* The context of the section lies at offset i of the file under the tier.
SectionMatchesAt(i, tier) ==
    LET context == ContextOf(OneSection) IN
    /\ i + Len(context) <= Len(FuzzFile)
    /\ \A k \in 1..Len(context) :
         CASE tier = 0 -> FuzzFile[i + k] = context[k]
           [] tier = 1 -> RightTrimmed(FuzzFile[i + k]) = RightTrimmed(context[k])
           [] tier = 2 -> Trimmed(FuzzFile[i + k]) = Trimmed(context[k])

\* The lowest tier under which the section matches at or after its start.
SectionTier ==
    CHOOSE t \in 0..2 :
        /\ \E i \in SectionStart..Len(FuzzFile) : SectionMatchesAt(i, t)
        /\ \A u \in 0..(t - 1) :
              ~\E i \in SectionStart..Len(FuzzFile) : SectionMatchesAt(i, u)

====
